---- MODULE Spec2Model ----
(***************************************************************************)
(* A model of giscanner/transformer.py: the Transformer that turns a       *)
(* stream of C declarations into a namespace of nodes, its include         *)
(* registration with the shared cache store, its transfer inference and    *)
(* its type-name resolution.                                               *)
(*                                                                         *)
(* Python strings are TLA+ strings; the string operations the code uses    *)
(* (startswith, lower, replace, split, slicing) are computed on them.      *)
(***************************************************************************)
EXTENDS Naturals, Integers, Sequences, FiniteSets, TLC

VARIABLES
    fs,          \* file -> includes of the parsed file (the include graph on disk)
    cachestore,  \* the shared cache store: the set of file names with a stored parser
    loads,       \* file -> number of GIRParser.parse(file) runs (the load counter)
    includes,    \* transformer -> self._includes
    names,       \* transformer -> self._names (the four mappings)
    stack,       \* transformer -> frames of register_include/_parse_include in progress
    failed,      \* transformer -> the last register_include raised
    strip_prefix,\* self._strip_prefix of the transformer that parses
    tin,         \* the arguments of a pending _create_parameter/_create_return call
    tout,        \* what that call returned or raised
    stream,      \* the symbols generator.get_symbols() has yet to yield
    namespace,   \* self._namespace.nodes
    heap,        \* the Struct, Union, Enum and other nodes created, by identity
    typedefs_ns, \* self._typedefs_ns
    pstatus,     \* where parse() is: not called, in its loop, returned, or raised
    last,        \* the last symbol of the loop and what _traverse_one did with it
    res,         \* the last resolve_type_name/resolve_type_name_full calls
    concurrent,  \* the transformers run at the same time (threads or processes)
    called       \* transformer -> its last register_include call

incvars == <<fs, cachestore, loads, includes, names, stack, failed,
             concurrent, called>>

typevars == <<tin, tout>>

parsevars == <<stream, namespace, heap, typedefs_ns, pstatus, last>>

vars == <<fs, cachestore, loads, includes, names, stack, failed,
          strip_prefix, tin, tout, stream, namespace, heap, typedefs_ns,
          pstatus, last, res, concurrent, called>>

(***************************************************************************)
(* Python values                                                           *)
(***************************************************************************)
\* Python's None, where a string is expected.
None == "<None>"

\* An attribute the object does not have: hasattr(obj, attr) is false.
NoAttr == "<no attribute>"

EmptyMap == [k \in {} |-> None]

\* d[k] = v on a dict.
Put(d, k, v) == [x \in (DOMAIN d) \cup {k} |-> IF x = k THEN v ELSE d[x]]

\* d.get(k): the value, or None.
Get(d, k) == IF k \in DOMAIN d THEN d[k] ELSE None

Has(d, k) == k \in DOMAIN d

(***************************************************************************)
(* str methods                                                             *)
(***************************************************************************)
Char(s, i) == SubSeq(s, i, i)

\* s[n:]
From(s, n) == SubSeq(s, n + 1, Len(s))

\* s.startswith(p)
StartsWith(s, p) == Len(p) <= Len(s) /\ SubSeq(s, 1, Len(p)) = p

\* s.endswith(p)
EndsWith(s, p) == Len(p) <= Len(s) /\ SubSeq(s, Len(s) - Len(p) + 1, Len(s)) = p

RECURSIVE Find(_, _, _)
\* the first index >= i (1-based) of character c in s, or 0
Find(s, c, i) ==
    IF i > Len(s) THEN 0
    ELSE IF Char(s, i) = c THEN i ELSE Find(s, c, i + 1)

LowerChar(c) ==
    IF Find("ABCDEFGHIJKLMNOPQRSTUVWXYZ", c, 1) = 0 THEN c
    ELSE Char("abcdefghijklmnopqrstuvwxyz", Find("ABCDEFGHIJKLMNOPQRSTUVWXYZ", c, 1))

RECURSIVE Lower(_)
\* s.lower()
Lower(s) == IF s = "" THEN "" ELSE LowerChar(Char(s, 1)) \o Lower(From(s, 1))

RECURSIVE Remove(_, _)
\* s.replace(c, '') for a one-character c
Remove(s, c) ==
    IF s = "" THEN ""
    ELSE (IF Char(s, 1) = c THEN "" ELSE Char(s, 1)) \o Remove(From(s, 1), c)

RECURSIVE Split(_, _)
\* s.split(c) for a one-character separator: the sequence of the pieces
Split(s, c) ==
    LET i == Find(s, c, 1)
    IN  IF i = 0 THEN <<s>>
        ELSE <<SubSeq(s, 1, i - 1)>> \o Split(From(s, i), c)

(***************************************************************************)
(* The include files on disk and their parsed contents                     *)
(***************************************************************************)
Transformers == {1, 2}

\* An include: a namespace name and a version.
Inc(n, v) == [name |-> n, version |-> v]

IncFoo  == Inc("Foo", "1.0")
IncGLib == Inc("GLib", "2.0")
IncLib  == Inc("Lib", "1.0")
IncGone == Inc("Gone", "1.0")

\* The includes that have a file on disk, in a fixed order.
IncOrder == <<IncFoo, IncGLib, IncLib>>

Found == {IncOrder[i] : i \in 1..Len(IncOrder)}

\* Every include a caller may ask for; IncGone has no file anywhere.
Incs == Found \cup {IncGone}

\* '%s-%s.gir' % (include.name, include.version)
GirName(include) == include.name \o "-" \o include.version \o ".gir"

\* os.path.join(d, name)
PathJoin(d, name) == d \o "/" \o name

\* _xdg_data_dirs, each joined with 'gir'.
XdgGirDirs == <<PathJoin("/usr/share", "gir")>>

\* self._includepaths of each transformer (set_include_paths).
IncludePaths(t) == IF t = 1 THEN <<"/opt/gir">> ELSE <<>>

\* os.path.exists: Foo-1.0.gir is in both directories, the others in one.
Exists(path) ==
    path \in {PathJoin("/opt/gir", GirName(IncFoo))}
             \cup {PathJoin(XdgGirDirs[1], GirName(i)) : i \in Found}

Files == {PathJoin("/opt/gir", GirName(IncFoo))}
             \cup {PathJoin(XdgGirDirs[1], GirName(i)) : i \in Found}

\* A node of an included namespace, as the GIR parser builds it.
IncNode(kind, name, ctype, symbol, type_name) ==
    [kind |-> kind, name |-> name, ctype |-> ctype, symbol |-> symbol,
     type_name |-> type_name]

\* parser.get_namespace() of each include file.
NamespaceOf(include) ==
    CASE include = IncFoo ->
           [name |-> "Foo",
            nodes |-> << IncNode("Class", "Object", "FooObject", NoAttr, "FooObject"),
                         IncNode("Function", "init", NoAttr, "foo_init", NoAttr) >>]
      [] include = IncGLib ->
           [name |-> "GLib",
            nodes |-> << IncNode("Struct", "List", NoAttr, "GList", NoAttr),
                         IncNode("Alias", "Quark", "GQuark", NoAttr, NoAttr) >>]
      [] include = IncLib ->
           [name |-> "Lib",
            nodes |-> << IncNode("Struct", "List", NoAttr, "LibList", NoAttr) >>]

\* The include whose file is at a path.
IncludeAt(path) == CHOOSE i \in Found : EndsWith(path, "/" \o GirName(i))

\* The include lists of the files: each file includes a set of the others,
\* listed in IncOrder's order.
IncludeLists ==
    [Found -> SUBSET Found]

RECURSIVE Reach(_, _, _)
\* what include i reaches through graph g in at most n steps
Reach(g, i, n) ==
    IF n = 0 THEN {}
    ELSE g[i] \cup UNION {Reach(g, j, n - 1) : j \in g[i]}

Acyclic(g) == \A i \in Found : i \notin Reach(g, i, Cardinality(Found))

\* parser.get_includes() of the file at a path, as a sequence.
GetIncludes(g, path) ==
    SelectSeq(IncOrder, LAMBDA i : i \in g[IncludeAt(path)])

(***************************************************************************)
(* Names                                                                   *)
(***************************************************************************)
\* Names.__init__
NewNames == [names |-> EmptyMap, aliases |-> EmptyMap,
             type_names |-> EmptyMap, ctypes |-> EmptyMap]

\* A registry entry (namespace, node).
Pair(nsname, node) == [ns |-> nsname, node |-> node]

\* One iteration of the loop over namespace.nodes in _parse_include.
MergeNode(ns, nsname, node) ==
    LET n1 == IF node.kind = "Alias"
              THEN [ns EXCEPT !.aliases = Put(ns.aliases, node.name, Pair(nsname, node))]
              ELSE IF node.kind \in {"GLibBoxed", "Interface", "Class"}
              THEN [ns EXCEPT !.type_names =
                        Put(ns.type_names, node.type_name, Pair(nsname, node))]
              ELSE ns
        giname == nsname \o "." \o node.name
        n2 == [n1 EXCEPT !.names = Put(n1.names, giname, Pair(nsname, node))]
    IN  IF node.ctype # NoAttr
        THEN [n2 EXCEPT !.ctypes = Put(n2.ctypes, node.ctype, Pair(nsname, node))]
        ELSE IF node.symbol # NoAttr
        THEN [n2 EXCEPT !.ctypes = Put(n2.ctypes, node.symbol, Pair(nsname, node))]
        ELSE n2

RECURSIVE MergeNodes(_, _, _)
MergeNodes(ns, nsname, nodes) ==
    IF nodes = <<>> THEN ns
    ELSE MergeNodes(MergeNode(ns, nsname, Head(nodes)), nsname, Tail(nodes))

\* The tail of _parse_include: the namespace's nodes enter the registry.
MergeNamespace(ns, parsed) == MergeNodes(ns, parsed.name, parsed.nodes)

(***************************************************************************)
(* The built-in tables of giscanner/ast.py                                 *)
(***************************************************************************)
TYPE_NONE == "none"

TYPE_ANY == "any"

TYPE_STRING == "utf8"

\* BASIC_GIR_TYPES: the by-value basic types.
BASIC_GIR_TYPES == {"boolean", "int", "uint8", "double"}

\* type_names: every GIR type name maps to itself, the C spellings to theirs.
type_names ==
    [k \in BASIC_GIR_TYPES \cup {TYPE_NONE, TYPE_ANY, TYPE_STRING} |-> k]
    @@ [k \in {"char*", "gchar*"} |-> TYPE_STRING]
    @@ [k \in {"gint"} |-> "int"]
    @@ [k \in {"gboolean"} |-> "boolean"]
    @@ [k \in {"guint8"} |-> "uint8"]
    @@ [k \in {"void"} |-> TYPE_NONE]
    @@ [k \in {"void*", "gpointer"} |-> TYPE_ANY]

\* type_name_from_ctype(ctype): type_names.get(ctype, ctype)
type_name_from_ctype(ctype) == IF Has(type_names, ctype) THEN type_names[ctype] ELSE ctype

\* default_array_types (its keys)
default_array_types == {"uint8*", "char**"}

\* default_out_types
default_out_types == {"int", "double"}

(***************************************************************************)
(* remove_prefix and type-name resolution                                  *)
(***************************************************************************)
RECURSIVE LStripUnderscores(_)
\* while name.startswith('_'): name = name[1:]
LStripUnderscores(name) ==
    IF StartsWith(name, "_") THEN LStripUnderscores(From(name, 1)) ELSE name

\* The body of remove_prefix once the prefix is computed.
StripPrefix(prefix, name) ==
    LStripUnderscores(IF Len(name) > Len(prefix) /\ StartsWith(Lower(name), prefix)
                      THEN From(name, Len(prefix))
                      ELSE name)

\* remove_prefix(name, isfunction) with self._strip_prefix = sp
remove_prefix(sp, name, isfunction) ==
    StripPrefix(IF isfunction THEN Lower(sp) \o "_" ELSE Lower(sp), name)

typepair_to_str_bare(item) == item.node.name

\* _typepair_to_str
typepair_to_str(item) ==
    IF item.ns = None THEN item.node.name
    ELSE item.ns \o "." \o item.node.name

\* What a resolution returns: a value, or KeyError raised.
Returned(v) == [raised |-> FALSE, value |-> v]

KeyError == [raised |-> TRUE, value |-> None]

\* A lookup that matched a registry entry, and one that matched none.
Hit(item) == [hit |-> TRUE, item |-> item]

Miss == [hit |-> FALSE]

\* "if ctype:" for a string or None
Truthy(str) == str # None /\ str # ""

\* The lookups of _resolve_type_name_1 in names.ctypes (by the ctype with
\* its '*' removed), then in aliases, names and type_names (by the name with
\* the prefix removed).
Lookup(stripped, ctype, nms) ==
    IF Truthy(ctype) /\ Has(nms.ctypes, Remove(ctype, "*"))
    THEN Hit(nms.ctypes[Remove(ctype, "*")])
    ELSE IF Has(nms.aliases, stripped) THEN Hit(nms.aliases[stripped])
    ELSE IF Has(nms.names, stripped) THEN Hit(nms.names[stripped])
    ELSE IF Has(nms.type_names, stripped) THEN Hit(nms.type_names[stripped])
    ELSE Miss

\* The registry lookups of _resolve_type_name_1, after the built-in table
\* has missed.
registry_hit(sp, type_name, ctype, nms) ==
    Lookup(remove_prefix(sp, type_name, FALSE), ctype, nms)

\* The built-in table answers before any registry is read.
BuiltIn(type_name, ctype) ==
    (Truthy(ctype) /\ Has(type_names, ctype)) \/ Has(type_names, type_name)

BuiltInName(type_name, ctype) ==
    IF Truthy(ctype) /\ Has(type_names, ctype)
    THEN type_names[ctype] ELSE type_names[type_name]

Rendered(r) == IF r.hit THEN Returned(typepair_to_str(r.item)) ELSE KeyError

\* _resolve_type_name_1(type_name, ctype, names)
resolve_type_name_1(sp, type_name, ctype, nms) ==
    IF BuiltIn(type_name, ctype)
    THEN Returned(BuiltInName(type_name, ctype))
    ELSE Rendered(registry_hit(sp, type_name, ctype, nms))

\* The value resolve_type_name_full falls back to on a total miss.
unresolved_name_stripped(sp, type_name) == Returned(remove_prefix(sp, type_name, FALSE))

unresolved_name(sp, type_name) == Returned(type_name)

\* The try/except ladder of resolve_type_name_full.
FirstOf(first, second, allow_invalid, fallback) ==
    IF ~first.raised THEN first
    ELSE IF ~second.raised THEN second
    ELSE IF ~allow_invalid THEN KeyError
    ELSE fallback

\* resolve_type_name_full(type_name, ctype, names, allow_invalid) with
\* self._names = own
resolve_type_name_full(sp, own, type_name, ctype, nms, allow_invalid) ==
    FirstOf(resolve_type_name_1(sp, type_name, ctype, nms),
            resolve_type_name_1(sp, type_name, ctype, own),
            allow_invalid,
            unresolved_name(sp, type_name))

OrName(r, type_name) == IF r.raised THEN type_name ELSE r.value

\* resolve_type_name(type_name, ctype)
resolve_type_name(sp, own, type_name, ctype) ==
    OrName(resolve_type_name_full(sp, own, type_name, ctype, own, TRUE), type_name)

\* ctype_of(obj) for a type node: its ctype attribute.
ctype_of(ptype) == ptype.ctype

Nested_unresolved(sp, own, n, nms, allow_invalid) == Returned(n)

\* A nested type name of a container, resolved; None stays None.
Nested(sp, own, n, nms, allow_invalid) ==
    IF n = None THEN Returned(None)
    ELSE resolve_type_name_full(sp, own, n, None, nms, allow_invalid)

\* The assignments of resolve_param_type_full in their order: the outer
\* name, then the element type of an Array or List, or the key and then the
\* value type of a Map.  A KeyError leaves what was assigned before it.
Assigned(ptype, outer, elem, key, value) ==
    IF outer.raised THEN [raised |-> TRUE, value |-> ptype]
    ELSE IF ptype.kind \in {"Array", "List"} /\ ptype.element_type # None
    THEN IF elem.raised
         THEN [raised |-> TRUE, value |-> [ptype EXCEPT !.name = outer.value]]
         ELSE [raised |-> FALSE,
               value |-> [ptype EXCEPT !.name = outer.value,
                                       !.element_type = elem.value]]
    ELSE IF ptype.kind = "Map" /\ ptype.key_type # None
    THEN IF key.raised
         THEN [raised |-> TRUE, value |-> [ptype EXCEPT !.name = outer.value]]
         ELSE IF value.raised
         THEN [raised |-> TRUE,
               value |-> [ptype EXCEPT !.name = outer.value,
                                       !.key_type = key.value]]
         ELSE [raised |-> FALSE,
               value |-> [ptype EXCEPT !.name = outer.value,
                                       !.key_type = key.value,
                                       !.value_type = value.value]]
    ELSE [raised |-> FALSE, value |-> [ptype EXCEPT !.name = outer.value]]

\* resolve_param_type_full(ptype, names, allow_invalid=...): the type node
\* as the call leaves it, and whether KeyError was raised on the way.  The
\* nested element, key and value types are type-name strings or None.
resolve_param_type_full(sp, own, ptype, nms, allow_invalid) ==
    Assigned(ptype,
             resolve_type_name_full(sp, own, ptype.name, ctype_of(ptype),
                                    nms, allow_invalid),
             Nested(sp, own, ptype.element_type, nms, allow_invalid),
             Nested(sp, own, ptype.key_type, nms, allow_invalid),
             Nested(sp, own, ptype.value_type, nms, allow_invalid))

\* resolve_param_type(ptype)
resolve_param_type(sp, own, ptype) ==
    resolve_param_type_full(sp, own, ptype, own, TRUE).value

(***************************************************************************)
(* C type descriptors and their rendering                                  *)
(***************************************************************************)
\* A SourceType: its kind, name, const qualifier and base type.
CType(type, name, const, base_type) ==
    [type |-> type, name |-> name, const |-> const, base_type |-> base_type,
     child_list |-> <<>>]

\* source_type is None
NullType == [type |-> None]

Basic(name) == CType("CTYPE_BASIC_TYPE", name, FALSE, NullType)

Typedef(name) == CType("CTYPE_TYPEDEF", name, FALSE, NullType)

Const(t) == [t EXCEPT !.const = TRUE]

Pointer(base) == CType("CTYPE_POINTER", None, FALSE, base)

ArrayOf(base) == CType("CTYPE_ARRAY", None, FALSE, base)

VoidType == CType("CTYPE_VOID", None, FALSE, NullType)

EnumType == CType("CTYPE_ENUM", None, FALSE, NullType)

\* A struct or union type and the member symbols in its child_list.
StructOf(children) ==
    [CType("CTYPE_STRUCT", None, FALSE, NullType) EXCEPT !.child_list = children]

UnionOf(children) ==
    [CType("CTYPE_UNION", None, FALSE, NullType) EXCEPT !.child_list = children]

\* A function type: its result type and the parameter symbols.
FunctionType(result, children) ==
    [CType("CTYPE_FUNCTION", None, FALSE, result) EXCEPT !.child_list = children]

\* An array type with a declared bound: child_list[0].const_int
ArrayN(base, n) ==
    [ArrayOf(base) EXCEPT !.child_list = <<[const_int |-> n]>>]

RECURSIVE create_source_type(_)
\* _create_source_type
create_source_type(source_type) ==
    CASE source_type.type = None -> "None"
      [] source_type.type = "CTYPE_VOID" -> "void"
      [] source_type.type = "CTYPE_BASIC_TYPE" -> source_type.name
      [] source_type.type = "CTYPE_TYPEDEF" -> source_type.name
      [] source_type.type = "CTYPE_ARRAY" -> create_source_type(source_type.base_type)
      [] source_type.type = "CTYPE_POINTER" ->
             create_source_type(source_type.base_type) \o "*"
      [] OTHER -> "any"

\* The last step of parse_ctype: "Preserve pointerness of struct/union
\* members".
Derefed(firstpass, derefed_typename, is_member) ==
    IF is_member /\ EndsWith(firstpass, "*") /\ derefed_typename \in BASIC_GIR_TYPES
    THEN "any"
    ELSE derefed_typename

FirstPass(firstpass, is_member) ==
    Derefed(firstpass, type_name_from_ctype(Remove(firstpass, "*")), is_member)

\* parse_ctype
parse_ctype(ctype, is_member) == FirstPass(type_name_from_ctype(ctype), is_member)

(***************************************************************************)
(* Annotation options                                                      *)
(***************************************************************************)
RECURSIVE parse_options_from(_, _)
parse_options_from(ret, options) ==
    IF options = <<>> THEN ret
    ELSE LET items == Split(Head(options), " ")
         IN  parse_options_from(Put(ret, Head(items), Tail(items)), Tail(options))

\* _parse_options: '(transfer full)' -> {'transfer': ['full']}
parse_options(options) == parse_options_from(EmptyMap, options)

\* self._list_ctypes and self._map_ctypes (set_container_types)
list_ctypes == {"GList*"}

map_ctypes == {"GHashTable*"}

(***************************************************************************)
(* Type nodes (giscanner/ast.py)                                           *)
(***************************************************************************)
TypeNode(kind, name, ctype) ==
    [kind |-> kind, name |-> name, ctype |-> ctype,
     element_type |-> None, key_type |-> None, value_type |-> None,
     length_param_name |-> None, length_param_index |-> -1,
     size |-> None, zeroterminated |-> TRUE]

Type(name, ctype) == TypeNode("Type", name, ctype)

List(name, ctype, element_type) ==
    [TypeNode("List", name, ctype) EXCEPT !.element_type = element_type]

Map(name, ctype, key_type, value_type) ==
    [TypeNode("Map", name, ctype) EXCEPT !.key_type = key_type,
                                         !.value_type = value_type]

Array(ctype, element_type) ==
    [TypeNode("Array", "<carray>", ctype) EXCEPT !.element_type = element_type]

Varargs == TypeNode("Varargs", "<varargs>", None)

(***************************************************************************)
(* _create_type: container detection, direction and transfer inference     *)
(***************************************************************************)
\* A builder ends with status "ok" and a value, with "SkipError", or with
\* "error": a hard error (ValueError, IndexError, AttributeError,
\* AssertionError, NotImplementedError).

\* ctype[:-1] if ctype[-1] == '*' else ctype
StripOneStar(ctype) ==
    IF EndsWith(ctype, "*") THEN SubSeq(ctype, 1, Len(ctype) - 1) ELSE ctype

\* options.get('array', [])
ArrayArgs(options) == IF Has(options, "array") THEN options["array"] ELSE <<>>

\* dict([opt.split('=') for opt in ...]) raises unless every piece is a pair.
ArrayOptsOK(options) ==
    \A i \in 1..Len(ArrayArgs(options)) : Len(Split(ArrayArgs(options)[i], "=")) = 2

RECURSIVE PairsToDict(_, _)
PairsToDict(d, args) ==
    IF args = <<>> THEN d
    ELSE LET kv == Split(Head(args), "=")
         IN  PairsToDict(Put(d, kv[1], kv[2]), Tail(args))

\* array_opts
ArrayOpts(options) == PairsToDict(EmptyMap, ArrayArgs(options))

\* if 'length' in array_opts: ...
WithLength(a, array_opts) ==
    IF Has(array_opts, "length")
    THEN [a EXCEPT !.length_param_name = array_opts["length"],
                   !.zeroterminated = FALSE]
    ELSE a

\* if 'fixed-size' in array_opts: ...
WithFixedSize(a, array_opts) ==
    IF Has(array_opts, "fixed-size")
    THEN [a EXCEPT !.size = array_opts["fixed-size"], !.zeroterminated = FALSE]
    ELSE a

\* if 'zero-terminated' in array_opts: ...
WithZeroTerminated(a, array_opts) ==
    IF Has(array_opts, "zero-terminated")
    THEN [a EXCEPT !.zeroterminated = (array_opts["zero-terminated"] # "0")]
    ELSE a

ArrayWith(a, array_opts) ==
    WithZeroTerminated(WithFixedSize(WithLength(a, array_opts), array_opts),
                       array_opts)

\* The Array type node and what the 'array' sub-options set on it.
ArrayType(ctype, options) ==
    ArrayWith(Array(ctype, parse_ctype(StripOneStar(ctype), FALSE)),
              ArrayOpts(options))

\* options.get('element-type'), where "if param:" takes it.
ElementArgs(options) ==
    IF Has(options, "element-type") THEN options["element-type"] ELSE <<>>

\* What the first half of _create_type leaves: the type node and the name
\* it was derived from, or a hard error.
Built(rettype, derefed_name) ==
    [status |-> "ok", rettype |-> rettype, derefed_name |-> derefed_name]

NotBuilt == [status |-> "error", rettype |-> None, derefed_name |-> None]

ListType(ctype, derefed_name, param) ==
    Built(List(derefed_name, ctype,
               IF param # <<>> THEN parse_ctype(param[1], FALSE) ELSE None),
          derefed_name)

MapType(ctype, derefed_name, param) ==
    IF param = <<>> THEN Built(Map(derefed_name, ctype, None, None), derefed_name)
    ELSE IF Len(param) = 1 THEN NotBuilt
    ELSE Built(Map(derefed_name, ctype, parse_ctype(param[1], FALSE),
                   parse_ctype(param[2], FALSE)),
               derefed_name)

PlainType(ctype, derefed_name) == Built(Type(derefed_name, ctype), derefed_name)

\* The first half of _create_type: "check for a list/map/array type".
BuildType(ctype, options, is_param, is_retval) ==
    IF ctype \in list_ctypes
    THEN ListType(ctype, parse_ctype(ctype, FALSE), ElementArgs(options))
    ELSE IF ctype \in map_ctypes
    THEN MapType(ctype, parse_ctype(ctype, FALSE), ElementArgs(options))
    ELSE IF (is_param /\ ctype \in default_array_types) \/ Has(options, "array")
    THEN IF ~ArrayOptsOK(options) THEN NotBuilt
         ELSE Built(ArrayType(ctype, options), StripOneStar(ctype))
    ELSE PlainType(ctype, parse_ctype(ctype, ~(is_param \/ is_retval)))

HasDirection(options) ==
    Has(options, "out") \/ Has(options, "in") \/ Has(options, "inout")
        \/ Has(options, "in-out")

\* "Deduce direction for some types passed by reference that aren't arrays"
DeduceOut(source_type, options, derefed_name) ==
    /\ ~Has(options, "array")
    /\ ~HasDirection(options)
    /\ source_type.type = "CTYPE_POINTER"
    /\ derefed_name \in default_out_types

\* The heuristics of _create_type that guess the transfer when none is
\* specified: the depth, or "error" where the code reads an attribute of None.
InferTransfer_by_direction(source_type, canontype, options, is_param) ==
    IF canontype = TYPE_STRING
    THEN IF source_type.base_type.type = None THEN "error"
         ELSE IF source_type.base_type.const THEN "none" ELSE "full"
    ELSE IF Has(options, "array") \/ source_type.type = "CTYPE_ARRAY" THEN "none"
    ELSE IF canontype \in BASIC_GIR_TYPES \/ canontype = TYPE_NONE
            \/ source_type.type = "CTYPE_ENUM" THEN "none"
    ELSE IF source_type.type = "CTYPE_POINTER" /\ source_type.base_type.const
    THEN "none"
    ELSE IF is_param
    THEN IF Has(options, "out") \/ Has(options, "inout") \/ Has(options, "in-out")
         THEN "full" ELSE "none"
    ELSE "full"

InferTransfer(source_type, canontype, options, is_param) ==
    IF canontype = TYPE_STRING
    THEN IF source_type.base_type.type = None THEN "error"
         ELSE IF source_type.base_type.const THEN "none" ELSE "full"
    ELSE IF Has(options, "array") \/ source_type.type = "CTYPE_ARRAY" THEN "none"
    ELSE IF canontype \in BASIC_GIR_TYPES \/ canontype = TYPE_NONE
            \/ source_type.type = "CTYPE_ENUM" THEN "none"
    ELSE IF source_type.type = "CTYPE_POINTER" /\ source_type.base_type.const
    THEN "none"
    ELSE IF is_param /\ source_type.type = "CTYPE_POINTER"
    THEN IF Has(options, "out") \/ Has(options, "inout") \/ Has(options, "in-out")
         THEN "full" ELSE "none"
    ELSE IF is_param THEN "none" ELSE "full"

\* How _create_type ends: the type node and the options dict as the call
\* leaves it, SkipError, or a hard error.
Created(rettype, options) == [status |-> "ok", rettype |-> rettype, options |-> options]

Raised(status) == [status |-> status, rettype |-> None, options |-> EmptyMap]

\* options['transfer-inferred'] = []; options['transfer'] = [depth]
WithDepth(rettype, options, depth) ==
    IF depth = "error" THEN Raised("error")
    ELSE Created(rettype, Put(Put(options, "transfer-inferred", <<>>),
                              "transfer", <<depth>>))

\* "if 'transfer' in options: return rettype", else the heuristics.
Transferred(source_type, ctype, rettype, options, is_param) ==
    IF Has(options, "transfer") THEN Created(rettype, options)
    ELSE WithDepth(rettype, options,
                   InferTransfer(source_type, type_name_from_ctype(ctype),
                                 options, is_param))

Deduced(source_type, ctype, built, options, is_param) ==
    IF built.status = "error" THEN Raised("error")
    ELSE Transferred(source_type, ctype, built.rettype,
                     IF DeduceOut(source_type, options, built.derefed_name)
                     THEN Put(options, "out", <<>>) ELSE options,
                     is_param)

CreateTypeOf(source_type, ctype, options, is_param, is_retval) ==
    IF ctype = "va_list" \/ ctype = "FILE*" THEN Raised("SkipError")
    ELSE Deduced(source_type, ctype, BuildType(ctype, options, is_param, is_retval),
                 options, is_param)

\* _create_type(source_type, options, is_param, is_retval)
create_type(source_type, options, is_param, is_retval) ==
    CreateTypeOf(source_type, create_source_type(source_type), options,
                 is_param, is_retval)

(***************************************************************************)
(* Parameter and Return                                                    *)
(***************************************************************************)
\* The transfer depth an explicit 'transfer' option with no argument gets.
DefaultDepth == "full"

\* depth in ('none', 'container', 'full')
ValidTransfer_any(depth) == TRUE

ValidTransfer(depth) == depth \in {"none", "container", "full"}

\* What building a node ends with.
Node(node) == [status |-> "ok", node |-> node]

NoNode(status) == [status |-> status, node |-> None]

\* data[0] if data else 'full'
Depth(data) == IF data # <<>> THEN data[1] ELSE DefaultDepth

\* _handle_generic_param_options on a Parameter or Return; a hard error for
\* an invalid transfer token.
handle_generic_param_options(param, options) ==
    IF ~Has(options, "transfer")
    THEN Node([param EXCEPT !.transfer_inferred = Has(options, "transfer-inferred")])
    ELSE IF ~ValidTransfer(Depth(options["transfer"]))
    THEN NoNode("error")
    ELSE Node([param EXCEPT !.transfer_inferred = Has(options, "transfer-inferred"),
                            !.transfer = Depth(options["transfer"])])

\* Parameter(name, type) and Return(type) of giscanner/ast.py
Parameter(name, ptype) ==
    [kind |-> "Parameter", name |-> name, type |-> ptype, direction |-> "in",
     transfer |-> None, transfer_inferred |-> FALSE, allow_none |-> FALSE]

Return(rtype) ==
    [kind |-> "Return", type |-> rtype, transfer |-> None,
     transfer_inferred |-> FALSE]

\* The direction the option loop of _create_parameter leaves.
DirectionOf(options) ==
    IF Has(options, "in-out") \/ Has(options, "inout") THEN "inout"
    ELSE IF Has(options, "out") THEN "out"
    ELSE "in"

\* "assert param.transfer is not None"
AssertTransfer(done) ==
    IF done.status # "ok" THEN done
    ELSE IF done.node.transfer = None THEN NoNode("error")
    ELSE done

\* The rest of _create_parameter once the type and the options are there.
ParameterWith(symbol, ptype, options) ==
    AssertTransfer(
        handle_generic_param_options(
            [Parameter(symbol.ident, ptype) EXCEPT
                !.direction = DirectionOf(options),
                !.allow_none = Has(options, "allow-none")],
            options))

ParameterOf(sp, own, symbol, made) ==
    IF made.status # "ok" THEN NoNode(made.status)
    ELSE ParameterWith(symbol, resolve_param_type(sp, own, made.rettype),
                       made.options)

\* if 'transfer' not in options: options['transfer'] = ['none']
VarargsOptions(options) ==
    IF Has(options, "transfer") THEN options ELSE Put(options, "transfer", <<"none">>)

\* _create_parameter(symbol, options) with self._strip_prefix = sp and
\* self._names = own
create_parameter(sp, own, symbol, raw_options) ==
    IF symbol.type = "CSYMBOL_TYPE_ELLIPSIS"
    THEN ParameterWith(symbol, Varargs, VarargsOptions(parse_options(raw_options)))
    ELSE ParameterOf(sp, own, symbol,
                     create_type(symbol.base_type, parse_options(raw_options),
                                 TRUE, FALSE))

ReturnOf(sp, own, made) ==
    IF made.status # "ok" THEN NoNode(made.status)
    ELSE AssertTransfer(
             handle_generic_param_options(
                 Return(resolve_param_type(sp, own, made.rettype)), made.options))

\* _create_return(source_type, options)
create_return(sp, own, source_type, raw_options) ==
    ReturnOf(sp, own,
             create_type(source_type, parse_options(raw_options), FALSE, TRUE))

(***************************************************************************)
(* Function and Callback                                                   *)
(***************************************************************************)
\* namespace_name of the transformer that parses (Transformer.__init__)
NamespaceName == "Bar"

IsUpper(ch) == LowerChar(ch) # ch

RECURSIVE to_underscores_from(_, _)
to_underscores_from(name, i) ==
    IF i > Len(name) THEN ""
    ELSE (IF i > 1 /\ IsUpper(Char(name, i)) /\ ~IsUpper(Char(name, i - 1))
          THEN "_" ELSE "") \o Char(name, i) \o to_underscores_from(name, i + 1)

\* utils.to_underscores: 'FooBar' -> 'Foo_Bar'
to_underscores(name) == to_underscores_from(name, 1)

\* _strip_namespace_func
strip_namespace_func(sp, name) ==
    remove_prefix(sp,
        IF StartsWith(Lower(name), Lower(NamespaceName) \o "_")
        THEN From(name, Len(NamespaceName) + 1)
        ELSE IF StartsWith(Lower(name), Lower(to_underscores(NamespaceName)) \o "_")
        THEN From(name, Len(to_underscores(NamespaceName)) + 1)
        ELSE name,
        TRUE)

\* dirs.get(child.ident, {})
DirectivesFor(directives, key) ==
    IF Has(directives, key) THEN directives[key] ELSE <<>>

\* What building a list of nodes ends with.
Nodes(nodes) == [status |-> "ok", nodes |-> nodes]

NoNodes(status) == [status |-> status, nodes |-> <<>>]

RECURSIVE create_parameters_from(_, _, _, _, _)
RECURSIVE NextParameter(_, _, _, _, _, _)
NextParameter(sp, own, children, directives, built, made) ==
    IF made.status # "ok" THEN NoNodes(made.status)
    ELSE create_parameters_from(sp, own, Tail(children), directives,
                                Append(built, made.node))

create_parameters_from(sp, own, children, directives, built) ==
    IF children = <<>> THEN Nodes(built)
    ELSE NextParameter(sp, own, children, directives, built,
             create_parameter(sp, own, Head(children),
                              DirectivesFor(directives, Head(children).ident)))

\* list(self._create_parameters(base_type, directives)): the parameters in
\* order, up to the first that raises.
create_parameters(sp, own, base_type, directives) ==
    create_parameters_from(sp, own, base_type.child_list, directives, <<>>)

RECURSIVE IndexOfName(_, _, _)
\* The first i (from 0, as enumerate counts) with params[i].name = name, or -1.
IndexOfName(params, name, i) ==
    IF i >= Len(params) THEN -1
    ELSE IF params[i + 1].name = name THEN i
    ELSE IndexOfName(params, name, i + 1)

\* The search of _pair_array: the whole parameter list, from its start.
LengthIndex_from_one(params, k, name) ==
    IF IndexOfName(params, name, 0) < 0 THEN -1
    ELSE IndexOfName(params, name, 0) + 1

LengthIndex(params, k, name) == IndexOfName(params, name, 0)

\* "if not array.type.length_param_name: return"
NamesLength(ptype) == Truthy(ptype.length_param_name)

\* _pair_array(params, array) for array = params[k]: the parameters with
\* the index set, or ValueError.
PairedAt(params, k, index) ==
    IF index < 0 THEN NoNodes("error")
    ELSE Nodes([params EXCEPT ![k].type.length_param_index = index])

pair_array(params, k) ==
    IF ~NamesLength(params[k].type) THEN Nodes(params)
    ELSE PairedAt(params, k,
                  LengthIndex(params, k, params[k].type.length_param_name))

\* isinstance(param.type, Array)
IsArray(ptype) == ptype.kind = "Array"

\* "if param.name in names: raise ValueError"
Duplicate_unchecked(params, k) == FALSE

Duplicate(params, k) == \E j \in 1..(k - 1) : params[j].name = params[k].name

RECURSIVE pair_annotations_from(_, _)
RECURSIVE PairNext(_, _)
PairNext(paired, k) ==
    IF paired.status # "ok" THEN paired
    ELSE pair_annotations_from(paired.nodes, k + 1)

pair_annotations_from(params, k) ==
    IF k > Len(params) THEN Nodes(params)
    ELSE IF Duplicate(params, k) THEN NoNodes("error")
    ELSE IF IsArray(params[k].type) THEN PairNext(pair_array(params, k), k)
    ELSE pair_annotations_from(params, k + 1)

\* _pair_annotations(params)
pair_annotations(params) == pair_annotations_from(params, 1)

RECURSIVE Strip(_)
RECURSIVE RStrip(_)
RStrip(str) ==
    IF EndsWith(str, " ") THEN RStrip(SubSeq(str, 1, Len(str) - 1)) ELSE str

\* str.strip()
Strip(str) == IF StartsWith(str, " ") THEN Strip(From(str, 1)) ELSE RStrip(str)

\* _parse_deprecated: the node with deprecated and deprecated_version set.
Deprecation(node, value, colon) ==
    IF colon = 0 THEN [node EXCEPT !.deprecated = Strip(value)]
    ELSE [node EXCEPT !.deprecated_version = Strip(SubSeq(value, 1, colon - 1)),
                      !.deprecated = Strip(From(value, colon))]

parse_deprecated(node, directives) ==
    IF DirectivesFor(directives, "deprecated") = <<>> THEN node
    ELSE Deprecation(node, directives["deprecated"][1],
                     Find(directives["deprecated"][1], ":", 1))

\* Function(name, retval, parameters, symbol) and Callback(name, retval,
\* parameters, ctype) of giscanner/ast.py
Function(name, retval, parameters, symbol) ==
    [kind |-> "Function", name |-> name, retval |-> retval,
     parameters |-> parameters, symbol |-> symbol, fields |-> <<>>,
     deprecated |-> None, deprecated_version |-> None]

Callback(name, retval, parameters, ctype) ==
    [kind |-> "Callback", name |-> name, retval |-> retval,
     parameters |-> parameters, symbol |-> ctype, fields |-> <<>>,
     deprecated |-> None, deprecated_version |-> None]

\* The tail of _create_function: the Return, the name, the Function.
FunctionWith(sp, symbol, paired, return_) ==
    IF return_.status # "ok" THEN NoNode(return_.status)
    ELSE Node(parse_deprecated(
                  Function(strip_namespace_func(sp, symbol.ident), return_.node,
                           paired.nodes, symbol.ident),
                  symbol.directives))

FunctionPaired(sp, own, symbol, paired) ==
    IF paired.status # "ok" THEN NoNode(paired.status)
    ELSE FunctionWith(sp, symbol, paired,
             create_return(sp, own, symbol.base_type.base_type,
                           DirectivesFor(symbol.directives, "return")))

FunctionOf(sp, own, symbol, parameters) ==
    IF parameters.status # "ok" THEN NoNode(parameters.status)
    ELSE FunctionPaired(sp, own, symbol, pair_annotations(parameters.nodes))

\* _create_function(symbol)
create_function(sp, own, symbol) ==
    FunctionOf(sp, own, symbol,
               create_parameters(sp, own, symbol.base_type, symbol.directives))

\* The name of a Callback: function-style stripping if the identifier has
\* a '_' past its first character.
CallbackName(sp, ident) ==
    remove_prefix(sp, ident, Find(ident, "_", 1) > 1)

CallbackWith(sp, symbol, retval, parameters) ==
    IF parameters.status # "ok" THEN NoNode(parameters.status)
    ELSE Node(Callback(CallbackName(sp, symbol.ident), retval.node,
                       parameters.nodes, symbol.ident))

CallbackOf(sp, own, symbol, retval) ==
    IF retval.status # "ok" THEN NoNode(retval.status)
    ELSE CallbackWith(sp, symbol, retval,
             create_parameters(sp, own, symbol.base_type.base_type,
                               symbol.directives))

\* _create_callback(symbol): the Return is built first, the parameters
\* (a generator) when Callback(...) is called.
create_callback(sp, own, symbol) ==
    CallbackOf(sp, own, symbol,
               create_return(sp, own, symbol.base_type.base_type.base_type,
                             DirectivesFor(symbol.directives, "return")))

(***************************************************************************)
(* Nodes of the namespace under construction                               *)
(***************************************************************************)
\* The nodes of giscanner/ast.py that _traverse_one builds.
Struct(name, symbol, disguised) ==
    [kind |-> "Struct", name |-> name, symbol |-> symbol,
     disguised |-> disguised, fields |-> <<>>]

Union(name, symbol) ==
    [kind |-> "Union", name |-> name, symbol |-> symbol,
     disguised |-> FALSE, fields |-> <<>>]

Enum(name, symbol, members) ==
    [kind |-> "Enum", name |-> name, symbol |-> symbol, members |-> members,
     fields |-> <<>>]

Member(name, value, symbol) ==
    [kind |-> "Member", name |-> name, value |-> value, symbol |-> symbol,
     fields |-> <<>>]

Alias(name, target, ctype) ==
    [kind |-> "Alias", name |-> name, target |-> target, ctype |-> ctype,
     fields |-> <<>>]

Constant(name, type_name, value) ==
    [kind |-> "Constant", name |-> name, type |-> type_name, value |-> value,
     fields |-> <<>>]

Field(name, ftype, symbol, bits) ==
    [kind |-> "Field", name |-> name, type |-> ftype, symbol |-> symbol,
     readable |-> TRUE, writable |-> TRUE, bits |-> bits, fields |-> <<>>]

\* A reference to a node object: its place among the objects created, and
\* its name (which no code assigns after construction).
NodeRef(ref, name) == [ref |-> ref, name |-> name]

\* node is None
NoRef == [ref |-> 0, name |-> None]

\* The state a builder reads and leaves: the objects created, the typedef
\* shells (self._typedefs_ns) and the registry (self._names).
State(heap_, typedefs_, names_) ==
    [heap |-> heap_, typedefs |-> typedefs_, names |-> names_]

\* What _traverse_one ends with: a node or None, or an exception; and the
\* state it leaves either way.
Result(status, st, node) == [status |-> status, st |-> st, node |-> node]

\* A newly constructed node object.
Alloc(st, node) ==
    Result("ok", [st EXCEPT !.heap = Append(st.heap, node)],
           NodeRef(Len(st.heap) + 1, node.name))

\* A builder without side effects returned a node or raised.
Fresh(st, made) ==
    IF made.status # "ok" THEN Result(made.status, st, NoRef)
    ELSE Alloc(st, made.node)

RECURSIVE ToDecimal(_)
\* '%d' % n
ToDecimal(n) ==
    IF n < 10 THEN SubSeq("0123456789", n + 1, n + 1)
    ELSE ToDecimal(n \div 10) \o SubSeq("0123456789", (n % 10) + 1, (n % 10) + 1)

\* The opts dict of _create_member.
MemberOptions(base_type) ==
    IF base_type.type # "CTYPE_ARRAY" THEN EmptyMap
    ELSE IF base_type.child_list = <<>> THEN Put(EmptyMap, "array", <<>>)
    ELSE Put(EmptyMap, "array",
             <<"fixed-size=" \o ToDecimal(base_type.child_list[1].const_int)>>)

FieldOf(sp, own, symbol, made) ==
    IF made.status # "ok" THEN NoNode(made.status)
    ELSE Node(Field(symbol.ident, resolve_param_type(sp, own, made.rettype),
                    symbol.ident, symbol.const_int))

IsFunctionPointer(base_type) ==
    base_type.type = "CTYPE_POINTER" /\ base_type.base_type.type = "CTYPE_FUNCTION"

\* _create_member(symbol)
create_member(sp, own, symbol) ==
    IF IsFunctionPointer(symbol.base_type)
    THEN create_callback(sp, own, symbol)
    ELSE FieldOf(sp, own, symbol,
                 create_type(symbol.base_type, MemberOptions(symbol.base_type),
                             FALSE, FALSE))

RECURSIVE append_fields(_, _, _, _)
RECURSIVE AppendField(_, _, _, _, _)
AppendField(sp, st, ref, children, field) ==
    IF field.status # "ok" THEN Result(field.status, st, NoRef)
    ELSE append_fields(sp,
             [st EXCEPT !.heap[ref].fields = Append(@, field.node)],
             ref, Tail(children))

\* "for child in symbol.base_type.child_list: field = self._traverse_one(child);
\* if field: struct.fields.append(field)", the children being members.
append_fields(sp, st, ref, children) ==
    IF children = <<>> THEN Result("ok", st, NodeRef(ref, st.heap[ref].name))
    ELSE AppendField(sp, st, ref, children,
                     create_member(sp, st.names, Head(children)))

\* "if symbol.ident.startswith('_'): name = symbol.ident[1:]"
DropUnderscore(ident) == IF StartsWith(ident, "_") THEN From(ident, 1) ELSE ident

\* The struct or union the fields go to: the typedef shell registered under
\* the identifier, or a new node.
Aggregate_new(sp, st, symbol, made) ==
    Alloc(st, [made EXCEPT !.name = remove_prefix(sp, DropUnderscore(symbol.ident),
                                                   FALSE)])

Aggregate(sp, st, symbol, made) ==
    IF Has(st.typedefs, symbol.ident)
    THEN Result("ok", st, st.typedefs[symbol.ident])
    ELSE Aggregate_new(sp, st, symbol, made)

FieldsInto(sp, symbol, found) ==
    append_fields(sp, found.st, found.node.ref, symbol.base_type.child_list)

\* _create_struct(symbol)
create_struct(sp, st, symbol) ==
    FieldsInto(sp, symbol, Aggregate(sp, st, symbol, Struct("", symbol.ident, FALSE)))

\* _create_union(symbol)
create_union(sp, st, symbol) ==
    FieldsInto(sp, symbol, Aggregate(sp, st, symbol, Union("", symbol.ident)))

\* self._typedefs_ns[symbol.ident] = struct
Registered(symbol, shell) ==
    Result("ok", [shell.st EXCEPT !.typedefs = Put(@, symbol.ident, shell.node)],
           shell.node)

\* "self._create_struct(symbol); return struct": the shell is what is
\* returned, unless filling it raised.
ShellOf(shell, filled) ==
    IF filled.status # "ok" THEN filled
    ELSE Result("ok", filled.st, shell.node)

TypedefStruct(sp, symbol, shell) ==
    ShellOf(shell, create_struct(sp, shell.st, symbol))

\* _create_typedef_struct(symbol, disguised)
create_typedef_struct(sp, st, symbol, disguised) ==
    TypedefStruct(sp, symbol,
        Registered(symbol,
            Alloc(st, Struct(remove_prefix(sp, symbol.ident, FALSE),
                             symbol.ident, disguised))))

TypedefUnion(sp, symbol, shell) ==
    ShellOf(shell, create_union(sp, shell.st, symbol))

\* _create_typedef_union(symbol)
create_typedef_union(sp, st, symbol) ==
    TypedefUnion(sp, symbol,
        Registered(symbol,
            Alloc(st, Union(remove_prefix(sp, symbol.ident, FALSE), symbol.ident))))

RECURSIVE CommonPrefixLen(_, _, _)
CommonPrefixLen(first, second, i) ==
    IF i > Len(first) \/ i > Len(second) \/ Char(first, i) # Char(second, i)
    THEN i - 1
    ELSE CommonPrefixLen(first, second, i + 1)

\* utils.strip_common_prefix(first, second): second without the prefix it
\* shares with first and the separator after it.
strip_common_prefix(first, second) ==
    LStripUnderscores(From(second, CommonPrefixLen(first, second, 1)))

\* The members of _create_enum.
EnumMembers(symbol) ==
    [i \in 1..Len(symbol.base_type.child_list) |->
        Member(Lower(strip_common_prefix(symbol.ident,
                                         symbol.base_type.child_list[i].ident)),
               symbol.base_type.child_list[i].const_int,
               symbol.base_type.child_list[i].ident)]

\* self._names.type_names[symbol.ident] = (None, enum)
EnumRegistered(symbol, made) ==
    Result("ok",
           [made.st EXCEPT !.names.type_names =
                Put(@, symbol.ident, Pair(None, made.node))],
           made.node)

\* _create_enum(symbol)
create_enum(sp, st, symbol) ==
    EnumRegistered(symbol,
        Alloc(st, Enum(remove_prefix(sp, symbol.ident, FALSE), symbol.ident,
                       EnumMembers(symbol))))

\* _create_object(symbol)
create_object(symbol) ==
    Node(Member(symbol.ident, symbol.base_type.name, symbol.ident))

\* _create_const(symbol)
create_const(sp, symbol) ==
    IF symbol.const_string = None
    THEN Node(Constant(remove_prefix(sp, symbol.ident, FALSE), "int",
                       ToDecimal(symbol.const_int)))
    ELSE Node(Constant(remove_prefix(sp, symbol.ident, FALSE), "utf8",
                       symbol.const_string))

\* The Alias branch of _create_typedef: None if the name is a built-in's.
AliasOf(st, name, target, ident) ==
    IF Has(type_names, name) THEN Result("ok", st, NoRef)
    ELSE Alloc(st, Alias(name, target, ident))

\* _create_typedef(symbol)
create_typedef(sp, st, symbol) ==
    IF IsFunctionPointer(symbol.base_type)
    THEN Fresh(st, create_callback(sp, st.names, symbol))
    ELSE IF symbol.base_type.type = "CTYPE_POINTER"
            /\ symbol.base_type.base_type.type = "CTYPE_STRUCT"
    THEN create_typedef_struct(sp, st, symbol, TRUE)
    ELSE IF symbol.base_type.type = "CTYPE_STRUCT"
    THEN create_typedef_struct(sp, st, symbol, FALSE)
    ELSE IF symbol.base_type.type = "CTYPE_UNION"
    THEN create_typedef_union(sp, st, symbol)
    ELSE IF symbol.base_type.type = "CTYPE_ENUM"
    THEN create_enum(sp, st, symbol)
    ELSE IF symbol.base_type.type \in {"CTYPE_TYPEDEF", "CTYPE_POINTER",
                                       "CTYPE_BASIC_TYPE", "CTYPE_VOID"}
    THEN AliasOf(st, remove_prefix(sp, symbol.ident, FALSE),
                 IF Truthy(symbol.base_type.name)
                 THEN remove_prefix(sp, symbol.base_type.name, FALSE)
                 ELSE "none",
                 symbol.ident)
    ELSE Result("error", st, NoRef)

\* "try: return self._create_function(symbol) except SkipError: return"
SkipCaught(made) ==
    IF made.status = "SkipError" THEN [status |-> "ok", st |-> made.st, node |-> NoRef]
    ELSE made

\* _traverse_one(symbol) for a symbol of the stream
traverse_one(sp, st, symbol) ==
    CASE symbol.type = "CSYMBOL_TYPE_FUNCTION" ->
             SkipCaught(Fresh(st, create_function(sp, st.names, symbol)))
      [] symbol.type = "CSYMBOL_TYPE_TYPEDEF" -> create_typedef(sp, st, symbol)
      [] symbol.type = "CSYMBOL_TYPE_STRUCT" -> create_struct(sp, st, symbol)
      [] symbol.type = "CSYMBOL_TYPE_ENUM" -> create_enum(sp, st, symbol)
      [] symbol.type = "CSYMBOL_TYPE_OBJECT" -> Fresh(st, create_object(symbol))
      [] symbol.type = "CSYMBOL_TYPE_MEMBER" ->
             Fresh(st, create_member(sp, st.names, symbol))
      [] symbol.type = "CSYMBOL_TYPE_UNION" -> create_union(sp, st, symbol)
      [] symbol.type = "CSYMBOL_TYPE_CONST" -> Fresh(st, create_const(sp, symbol))
      [] OTHER -> Result("error", st, NoRef)

\* "if node.name.startswith('_'): return"
Private_never(name) == FALSE

Private(name) == StartsWith(name, "_")

\* Whether _add_node appends the node _traverse_one returned.
Added(node) == node.ref # 0 /\ ~Private(node.name)

(***************************************************************************)
(* register_include, _find_include, _parse_include                         *)
(***************************************************************************)
RECURSIVE FirstExisting(_, _)
FirstExisting(dirs, girname) ==
    IF dirs = <<>> THEN None
    ELSE IF Exists(PathJoin(Head(dirs), girname))
         THEN PathJoin(Head(dirs), girname)
         ELSE FirstExisting(Tail(dirs), girname)

\* _find_include: the path of the include's file, or None where the code
\* raises ValueError.
FindInclude(t, include) ==
    FirstExisting(IncludePaths(t) \o XdgGirDirs, GirName(include))

\* self._cachestore.load(filename): the stored parser, or None.
CacheLoad(store, filename) == IF filename \in store THEN filename ELSE None

\* self._cachestore.store(filename, parser)
CacheStore(store, filename) == store \cup {filename}

\* "if parser is None": the file is parsed only on a cache miss.
NeedsParse_always(parser) == TRUE

NeedsParse(parser) == parser = None

Frame(include, filename, pc, i) ==
    [include |-> include, filename |-> filename, pc |-> pc, i |-> i]

Top(t) == stack[t][Len(stack[t])]

SetTop(t, f) == [stack EXCEPT ![t] = [@ EXCEPT ![Len(@)] = f]]

Idle(t) == stack[t] = <<>>

\* No other transformer is inside register_include, where the calls are
\* made one after the other.
Alone(t) == concurrent \/ \A u \in Transformers \ {t} : Idle(u)

\* The interpreter's recursion limit, counted in activations of
\* _parse_include: the call that would exceed it raises RuntimeError.
RecursionLimit == 4

\* No call of register_include has been made.
NoCalls == [include |-> Inc(None, None), registered |-> FALSE]

\* register_include(include) is entered; registered: it returns at once.
Calls(include, registered) == [include |-> include, registered |-> registered]

\* "if include in self._includes: return"
AlreadyIncluded_never(t, include) == FALSE

AlreadyIncluded(t, include) == include \in includes[t]

\* A call of register_include(include) by a user of transformer t.
RegisterInclude(t, include) ==
    /\ Idle(t) /\ Alone(t)
    /\ called' = [called EXCEPT ![t] = Calls(include, AlreadyIncluded(t, include))]
    /\ IF AlreadyIncluded(t, include)
       THEN /\ failed' = [failed EXCEPT ![t] = FALSE]
            /\ UNCHANGED stack
       ELSE LET filename == FindInclude(t, include)
            IN  IF filename = None
                THEN /\ failed' = [failed EXCEPT ![t] = TRUE]
                     /\ UNCHANGED stack
                ELSE /\ failed' = [failed EXCEPT ![t] = FALSE]
                     /\ stack' = [stack EXCEPT
                                    ![t] = <<Frame(include, filename, "load", 1)>>]
    /\ UNCHANGED <<fs, cachestore, loads, includes, names, concurrent>>

\* parser = self._cachestore.load(filename)
Load(t) ==
    /\ ~Idle(t) /\ Alone(t)
    /\ Top(t).pc = "load"
    /\ stack' = SetTop(t, [Top(t) EXCEPT
                    !.pc = IF NeedsParse(CacheLoad(cachestore, Top(t).filename))
                           THEN "parse" ELSE "includes"])
    /\ UNCHANGED <<fs, cachestore, loads, includes, names, failed, concurrent, called>>

\* parser = GIRParser(); parser.parse(filename)
Parse(t) ==
    /\ ~Idle(t) /\ Alone(t)
    /\ Top(t).pc = "parse"
    /\ loads' = [loads EXCEPT ![Top(t).filename] = @ + 1]
    /\ stack' = SetTop(t, [Top(t) EXCEPT !.pc = "store"])
    /\ UNCHANGED <<fs, cachestore, includes, names, failed, concurrent, called>>

\* self._cachestore.store(filename, parser)
Store(t) ==
    /\ ~Idle(t) /\ Alone(t)
    /\ Top(t).pc = "store"
    /\ cachestore' = CacheStore(cachestore, Top(t).filename)
    /\ stack' = SetTop(t, [Top(t) EXCEPT !.pc = "includes"])
    /\ UNCHANGED <<fs, loads, includes, names, failed, concurrent, called>>

\* One iteration of "for include in parser.get_includes():
\* self.register_include(include)": the nested call returns at once, raises
\* (no file, or the recursion is too deep), or enters _parse_include.
NestedInclude(t) ==
    /\ ~Idle(t) /\ Alone(t)
    /\ Top(t).pc = "includes"
    /\ Top(t).i <= Len(GetIncludes(fs, Top(t).filename))
    /\ LET include == GetIncludes(fs, Top(t).filename)[Top(t).i]
           next == [Top(t) EXCEPT !.i = @ + 1]
           filename == FindInclude(t, include)
       IN  IF AlreadyIncluded(t, include)
           THEN /\ stack' = SetTop(t, next)
                /\ UNCHANGED failed
           ELSE IF filename = None \/ Len(stack[t]) >= RecursionLimit
           THEN /\ stack' = [stack EXCEPT ![t] = <<>>]
                /\ failed' = [failed EXCEPT ![t] = TRUE]
           ELSE /\ stack' = [stack EXCEPT ![t] =
                     Append(SubSeq(@, 1, Len(@) - 1), next)
                         \o <<Frame(include, filename, "load", 1)>>]
                /\ UNCHANGED failed
    /\ called' = [called EXCEPT ![t] =
                     Calls(GetIncludes(fs, Top(t).filename)[Top(t).i],
                           AlreadyIncluded(t, GetIncludes(fs, Top(t).filename)[Top(t).i]))]
    /\ UNCHANGED <<fs, cachestore, loads, includes, names, concurrent>>

\* The rest of _parse_include (the namespace's nodes enter self._names), its
\* return, and the caller's self._includes.add(include).
FinishInclude(t) ==
    /\ ~Idle(t) /\ Alone(t)
    /\ Top(t).pc = "includes"
    /\ Top(t).i > Len(GetIncludes(fs, Top(t).filename))
    /\ names' = [names EXCEPT ![t] =
                    MergeNamespace(@, NamespaceOf(IncludeAt(Top(t).filename)))]
    /\ includes' = [includes EXCEPT ![t] = @ \cup {Top(t).include}]
    /\ stack' = [stack EXCEPT ![t] = SubSeq(@, 1, Len(@) - 1)]
    /\ UNCHANGED <<fs, cachestore, loads, failed, concurrent, called>>

\* The transformer that parses; the other only registers includes.
ParseT == 1

\* No _create_parameter/_create_return call is pending.
NoCall == [ctx |-> "none"]

Pending == [status |-> "pending"]

\* No symbol has gone through the loop of parse().
NoStep == [symbol |-> [type |-> None], status |-> "none", node |-> NoRef,
           nodes_before |-> 0, heap_before |-> 0]

\* No resolve call has been made.
NoQuery == [status |-> "none"]

\* A transformer on which parse() has not been called.
NotParsing ==
    /\ stream = <<>>
    /\ namespace = <<>>
    /\ heap = <<>>
    /\ typedefs_ns = EmptyMap
    /\ pstatus = "idle"
    /\ last = NoStep
    /\ res = NoQuery

Init ==
    /\ fs \in {g \in IncludeLists : Acyclic(g)}
    /\ cachestore = {}
    /\ loads = [f \in Files |-> 0]
    /\ includes = [t \in Transformers |-> {}]
    /\ names = [t \in Transformers |-> NewNames]
    /\ stack = [t \in Transformers |-> <<>>]
    /\ failed = [t \in Transformers |-> FALSE]
    /\ concurrent = FALSE
    /\ called = [t \in Transformers |-> NoCalls]
    /\ strip_prefix = ""
    /\ tin = NoCall
    /\ tout = Pending
    /\ NotParsing

Next ==
    /\ \E t \in Transformers :
        \/ \E include \in Incs : RegisterInclude(t, include)
        \/ Load(t)
        \/ Parse(t)
        \/ Store(t)
        \/ NestedInclude(t)
        \/ FinishInclude(t)
    /\ UNCHANGED <<strip_prefix, tin, tout, parsevars, res>>

Spec == Init /\ [][Next]_vars

(***************************************************************************)
(* Two transformers registering includes at the same time                  *)
(***************************************************************************)
\* As Init, but the two transformers run at the same time on the shared
\* cache store: the steps of their register_include calls interleave.
InitConcurrent ==
    /\ fs \in {g \in IncludeLists : Acyclic(g)}
    /\ cachestore = {}
    /\ loads = [f \in Files |-> 0]
    /\ includes = [t \in Transformers |-> {}]
    /\ names = [t \in Transformers |-> NewNames]
    /\ stack = [t \in Transformers |-> <<>>]
    /\ failed = [t \in Transformers |-> FALSE]
    /\ concurrent = TRUE
    /\ called = [t \in Transformers |-> NoCalls]
    /\ strip_prefix = ""
    /\ tin = NoCall
    /\ tout = Pending
    /\ NotParsing

SpecConcurrent == InitConcurrent /\ [][Next]_vars

(***************************************************************************)
(* Include files that include each other                                   *)
(***************************************************************************)
\* As Init, over the include graphs that have a cycle: a file that includes
\* itself, or two or three files that include each other in a ring.
InitCyclic ==
    /\ fs \in {g \in IncludeLists : ~Acyclic(g)}
    /\ cachestore = {}
    /\ loads = [f \in Files |-> 0]
    /\ includes = [t \in Transformers |-> {}]
    /\ names = [t \in Transformers |-> NewNames]
    /\ stack = [t \in Transformers |-> <<>>]
    /\ failed = [t \in Transformers |-> FALSE]
    /\ concurrent = FALSE
    /\ called = [t \in Transformers |-> NoCalls]
    /\ strip_prefix = ""
    /\ tin = NoCall
    /\ tout = Pending
    /\ NotParsing

SpecCyclic == InitCyclic /\ [][Next]_vars

(***************************************************************************)
(* Building one Parameter or Return from a declaration and its annotations *)
(***************************************************************************)
\* The C types of the parameters and results tried.
SourceTypes ==
    { Basic("int"), VoidType, EnumType, Typedef("GValue"), Typedef("gboolean"),
      Pointer(Basic("char")), Pointer(Const(Basic("char"))),
      Pointer(Typedef("FooObject")), Pointer(Const(Typedef("FooObject"))),
      Pointer(Basic("int")), Pointer(Typedef("uint8")),
      ArrayOf(Basic("int")), ArrayOf(Pointer(Const(Basic("char")))),
      Pointer(Pointer(Basic("char"))),
      Pointer(Typedef("GList")), Pointer(Typedef("GHashTable")),
      Typedef("va_list"), Pointer(Typedef("FILE")) }

\* The annotation strings tried: at most one direction, one array and one
\* transfer annotation.
DirectionOptions == {<<>>, <<"in">>, <<"out">>, <<"inout">>, <<"in-out">>}

ArrayOptions == {<<>>, <<"array">>, <<"array length=n">>}

TransferOptions ==
    {<<>>, <<"transfer">>, <<"transfer none">>, <<"transfer container">>,
     <<"transfer full">>, <<"transfer everything">>}

RawOptions ==
    {d \o a \o x : d \in DirectionOptions, a \in ArrayOptions, x \in TransferOptions}

\* A child symbol of a function type: a parameter, or the '...' ellipsis.
ParamSymbol(ident, base_type) ==
    [type |-> "CSYMBOL_TYPE_OBJECT", ident |-> ident, base_type |-> base_type]

Ellipsis == [type |-> "CSYMBOL_TYPE_ELLIPSIS", ident |-> "...", base_type |-> NullType]

InitType ==
    /\ fs = [i \in Found |-> {}]
    /\ cachestore = {}
    /\ loads = [f \in Files |-> 0]
    /\ includes = [t \in Transformers |-> {}]
    /\ names = [t \in Transformers |-> NewNames]
    /\ stack = [t \in Transformers |-> <<>>]
    /\ failed = [t \in Transformers |-> FALSE]
    /\ concurrent = FALSE
    /\ called = [t \in Transformers |-> NoCalls]
    /\ strip_prefix = ""
    /\ \E options \in RawOptions :
         \/ \E st \in SourceTypes :
              tin = [ctx |-> "param", symbol |-> ParamSymbol("arg", st),
                     options |-> options]
         \/ tin = [ctx |-> "param", symbol |-> Ellipsis, options |-> options]
         \/ \E st \in SourceTypes :
              tin = [ctx |-> "return", symbol |-> ParamSymbol("", st),
                     options |-> options]
    /\ tout = Pending
    /\ NotParsing

\* self._create_parameter(child, dirs.get(child.ident, {}))
CreateParameter ==
    /\ tin.ctx = "param" /\ tout = Pending
    /\ tout' = create_parameter(strip_prefix, names[ParseT], tin.symbol, tin.options)
    /\ UNCHANGED <<incvars, strip_prefix, tin, parsevars, res>>

\* self._create_return(symbol.base_type.base_type, directives.get('return', {}))
CreateReturn ==
    /\ tin.ctx = "return" /\ tout = Pending
    /\ tout' = create_return(strip_prefix, names[ParseT], tin.symbol.base_type,
                             tin.options)
    /\ UNCHANGED <<incvars, strip_prefix, tin, parsevars, res>>

NextType == CreateParameter \/ CreateReturn

SpecType == InitType /\ [][NextType]_vars

(***************************************************************************)
(* parse(): the loop over the symbol stream                                *)
(***************************************************************************)
\* A SourceSymbol of the scanner: its kind, identifier and type, the
\* annotations of its comment block (symbol.directives()), and its value.
SourceSymbol(type, ident, base_type) ==
    [type |-> type, ident |-> ident, base_type |-> base_type,
     directives |-> EmptyMap, const_int |-> 0, const_string |-> None]

FunctionSymbol(ident, result, params, directives) ==
    [SourceSymbol("CSYMBOL_TYPE_FUNCTION", ident, FunctionType(result, params))
        EXCEPT !.directives = directives]

TypedefSymbol(ident, base_type) == SourceSymbol("CSYMBOL_TYPE_TYPEDEF", ident, base_type)

StructSymbol(ident, members) ==
    SourceSymbol("CSYMBOL_TYPE_STRUCT", ident, StructOf(members))

UnionSymbol(ident, members) ==
    SourceSymbol("CSYMBOL_TYPE_UNION", ident, UnionOf(members))

MemberSymbol(ident, base_type) == SourceSymbol("CSYMBOL_TYPE_MEMBER", ident, base_type)

ObjectSymbol(ident, base_type) == SourceSymbol("CSYMBOL_TYPE_OBJECT", ident, base_type)

ConstSymbol(ident, value) ==
    [SourceSymbol("CSYMBOL_TYPE_CONST", ident, NullType) EXCEPT !.const_int = value]

\* An enum type and its enumerators.
EnumOf(idents) ==
    [EnumType EXCEPT !.child_list =
        [i \in 1..Len(idents) |->
            [SourceSymbol("CSYMBOL_TYPE_OBJECT", idents[i], NullType)
                EXCEPT !.const_int = i - 1]]]

\* self._names.names[node.name] = (None, node)
NamesAdded(nms, node) ==
    IF Added(node) THEN [nms EXCEPT !.names = Put(@, node.name, Pair(None, node))]
    ELSE nms

\* One turn of the loop of parse(): "node = self._traverse_one(symbol);
\* self._add_node(node)". An exception leaves the loop and parse().
Traversed(symbol, made) ==
    /\ stream' = Tail(stream)
    /\ heap' = made.st.heap
    /\ typedefs_ns' = made.st.typedefs
    /\ namespace' = IF made.status = "ok" /\ Added(made.node)
                    THEN Append(namespace, made.node)
                    ELSE namespace
    /\ names' = [names EXCEPT ![ParseT] =
                    IF made.status = "ok" THEN NamesAdded(made.st.names, made.node)
                    ELSE made.st.names]
    /\ pstatus' = IF made.status = "ok" THEN "parsing" ELSE made.status
    /\ last' = [symbol |-> symbol, status |-> made.status, node |-> made.node,
                nodes_before |-> Len(namespace), heap_before |-> Len(heap)]

ParseStep ==
    /\ pstatus = "parsing"
    /\ stream # <<>>
    /\ Traversed(Head(stream),
                 traverse_one(strip_prefix,
                              State(heap, typedefs_ns, names[ParseT]),
                              Head(stream)))
    /\ UNCHANGED <<fs, cachestore, loads, includes, stack, failed, concurrent, called,
                   strip_prefix, tin, tout, res>>

\* "return self._namespace", the stream being exhausted
ParseReturn ==
    /\ pstatus = "parsing"
    /\ stream = <<>>
    /\ pstatus' = "returned"
    /\ UNCHANGED <<incvars, strip_prefix, tin, tout, stream, namespace, heap,
                   typedefs_ns, last, res>>

\* A transformer with no include registered, about to run parse() over a
\* symbol stream.
ParsingOf(symbols, sp) ==
    /\ fs = [i \in Found |-> {}]
    /\ cachestore = {}
    /\ loads = [f \in Files |-> 0]
    /\ includes = [t \in Transformers |-> {}]
    /\ names = [t \in Transformers |-> NewNames]
    /\ stack = [t \in Transformers |-> <<>>]
    /\ failed = [t \in Transformers |-> FALSE]
    /\ concurrent = FALSE
    /\ called = [t \in Transformers |-> NoCalls]
    /\ strip_prefix = sp
    /\ tin = NoCall
    /\ tout = Pending
    /\ stream = symbols
    /\ namespace = <<>>
    /\ heap = <<>>
    /\ typedefs_ns = EmptyMap
    /\ pstatus = "parsing"
    /\ last = NoStep
    /\ res = NoQuery

NextParse == ParseStep \/ ParseReturn

(***************************************************************************)
(* parse() over one function declaration                                   *)
(***************************************************************************)
\* The most parameters of a function tried.
MaxParams == 3

\* The parameters tried: two named path, two named n, an array, a GList, a
\* va_list, a FILE* and the ellipsis.
ParamSymbols ==
    { ParamSymbol("path", Pointer(Const(Basic("char")))),
      ParamSymbol("path", Basic("int")),
      ParamSymbol("n", Basic("int")),
      ParamSymbol("arr", Pointer(Typedef("uint8"))),
      ParamSymbol("items", Pointer(Typedef("GList"))),
      ParamSymbol("ap", Typedef("va_list")),
      ParamSymbol("n", Pointer(Typedef("FILE"))),
      Ellipsis }

\* The annotation blocks tried.
DirectiveSets ==
    { EmptyMap,
      Put(EmptyMap, "arr", <<"array length=n">>),
      Put(EmptyMap, "arr", <<"array length=size">>),
      Put(Put(EmptyMap, "items", <<"array length=count">>),
          "deprecated", <<"0.6: Use bar_other ">>),
      Put(Put(EmptyMap, "path", <<"array length=n">>), "return", <<"transfer none">>) }

ResultTypes == { VoidType, Pointer(Typedef("FooObject")), Typedef("va_list") }

RECURSIVE SeqsUpTo(_, _)
\* The sequences over S of length at most n.
SeqsUpTo(S, n) ==
    IF n = 0 THEN {<<>>}
    ELSE SeqsUpTo(S, n - 1)
         \cup {Append(q, x) : q \in {r \in SeqsUpTo(S, n - 1) : Len(r) = n - 1}, x \in S}

FunctionSymbols ==
    { FunctionSymbol("bar_do_it", result, params, directives) :
        result \in ResultTypes,
        params \in SeqsUpTo(ParamSymbols, MaxParams),
        directives \in DirectiveSets }

InitFunc == \E symbol \in FunctionSymbols : ParsingOf(<<symbol>>, "")

SpecFunc == InitFunc /\ [][NextParse]_vars

(***************************************************************************)
(* parse() over a stream of declarations                                   *)
(***************************************************************************)
\* The most declarations in a stream tried.
MaxSymbols == 2

IntMember == MemberSymbol("x", Basic("int"))

ObjectMember == MemberSymbol("data", Pointer(Typedef("FooObject")))

BufMember == MemberSymbol("buf", ArrayN(Basic("char"), 16))

FileMember == MemberSymbol("fp", Pointer(Typedef("FILE")))

ListMember == MemberSymbol("args", Typedef("va_list"))

NotifyMember ==
    MemberSymbol("notify",
                 Pointer(FunctionType(VoidType, <<ParamSymbol("x", Basic("int"))>>)))

\* The declarations tried.
Declarations ==
    { \* typedef struct BarThing BarThing;   struct BarThing { int x; FooObject *data; };
      TypedefSymbol("BarThing", StructOf(<<>>)),
      StructSymbol("BarThing", <<IntMember, ObjectMember>>),
      \* typedef struct BarThing *BarThing;  (a disguised structure)
      TypedefSymbol("BarThing", Pointer(StructOf(<<>>))),
      \* typedef union BarValue BarValue;    union BarValue { int x; char buf[16]; };
      TypedefSymbol("BarValue", UnionOf(<<>>)),
      UnionSymbol("BarValue", <<IntMember, BufMember>>),
      \* struct _BarOps { int x; void (*notify) (int x); };
      StructSymbol("_BarOps", <<IntMember, NotifyMember>>),
      \* struct BarThing { int x; FILE *fp; };    union BarValue { va_list args; };
      StructSymbol("BarThing", <<IntMember, FileMember>>),
      UnionSymbol("BarValue", <<ListMember>>),
      \* typedef void (*BarLogFunc) (va_list args);   typedef int (*BarFunc) (int x);
      TypedefSymbol("BarLogFunc",
          Pointer(FunctionType(VoidType, <<ParamSymbol("args", Typedef("va_list"))>>))),
      TypedefSymbol("BarFunc",
          Pointer(FunctionType(Basic("int"), <<ParamSymbol("x", Basic("int"))>>))),
      \* void bar_vlog (const char *path, va_list ap);   FILE *bar_open (void);
      FunctionSymbol("bar_vlog", VoidType,
          <<ParamSymbol("path", Pointer(Const(Basic("char")))),
            ParamSymbol("ap", Typedef("va_list"))>>, EmptyMap),
      FunctionSymbol("bar_open", Pointer(Typedef("FILE")), <<>>, EmptyMap),
      \* void bar_init (void);
      FunctionSymbol("bar_init", VoidType, <<>>, EmptyMap),
      \* extern int _bar_private;
      ObjectSymbol("_bar_private", Basic("int")),
      \* typedef enum { BAR_MODE_FAST, BAR_MODE_SLOW } BarMode;
      TypedefSymbol("BarMode", EnumOf(<<"BAR_MODE_FAST", "BAR_MODE_SLOW">>)),
      \* #define BAR_MAX 10
      ConstSymbol("BAR_MAX", 10),
      \* typedef int BarId;   typedef int gboolean;
      TypedefSymbol("BarId", Basic("int")),
      TypedefSymbol("boolean", Basic("int")),
      \* a symbol of a kind _traverse_one does not handle
      SourceSymbol("CSYMBOL_TYPE_INVALID", "x", NullType) }

StripPrefixes == {"", "Bar"}

InitParse ==
    \E symbols \in SeqsUpTo(Declarations, MaxSymbols), sp \in StripPrefixes :
        ParsingOf(symbols, sp)

SpecParse == InitParse /\ [][NextParse]_vars

(***************************************************************************)
(* Resolving type names against the registry of includes and declarations  *)
(***************************************************************************)
RECURSIVE MergeIncludes(_, _)
\* The registry after register_include of the includes of S, none of which
\* includes another, in the order of IncOrder.
MergeIncludes(S, i) ==
    IF i = 0 THEN NewNames
    ELSE IF IncOrder[i] \in S
    THEN MergeNamespace(MergeIncludes(S, i - 1), NamespaceOf(IncOrder[i]))
    ELSE MergeIncludes(S, i - 1)

\* The symbol streams parsed before and between the queries.
ResolveStreams ==
    { <<>>,
      <<TypedefSymbol("BarThing", StructOf(<<>>))>>,
      <<ObjectSymbol("_bar_private", Basic("int"))>>,
      <<TypedefSymbol("GQuark", Basic("int"))>> }

ResolvePrefixes == {"", "g", "Bar"}

\* The type names and C types asked for.
QueryNames ==
    { "GList", "GLib.List", "Lib.List", "List", "FooObject", "Quark", "GQuark",
      "gNope", "_Nope", "int", "BarThing", "_bar_private" }

QueryCTypes == { None, "GList*", "Nope*" }

\* The registries passed to resolve_type_name_full: an empty one, that of
\* the GLib include alone, and the transformer's own.
PassedRegistries == {"empty", "GLib", "own"}

PassedNames(passed, own) ==
    CASE passed = "empty" -> NewNames
      [] passed = "GLib" -> MergeNamespace(NewNames, NamespaceOf(IncGLib))
      [] passed = "own" -> own

InitResolve ==
    \E S \in SUBSET Found, symbols \in ResolveStreams, sp \in ResolvePrefixes :
        /\ fs = [i \in Found |-> {}]
        /\ cachestore = {FindInclude(ParseT, i) : i \in S}
        /\ loads = [f \in Files |->
                      IF \E i \in S : FindInclude(ParseT, i) = f THEN 1 ELSE 0]
        /\ includes = [t \in Transformers |-> IF t = ParseT THEN S ELSE {}]
        /\ names = [t \in Transformers |->
                      IF t = ParseT THEN MergeIncludes(S, Len(IncOrder)) ELSE NewNames]
        /\ stack = [t \in Transformers |-> <<>>]
        /\ failed = [t \in Transformers |-> FALSE]
        /\ concurrent = FALSE
        /\ called = [t \in Transformers |-> NoCalls]
        /\ strip_prefix = sp
        /\ \E type_name \in QueryNames, ctype \in QueryCTypes,
              passed \in PassedRegistries, allow_invalid \in BOOLEAN :
              tin = [ctx |-> "resolve", type_name |-> type_name, ctype |-> ctype,
                     passed |-> passed, allow_invalid |-> allow_invalid]
        /\ tout = Pending
        /\ stream = symbols
        /\ namespace = <<>>
        /\ heap = <<>>
        /\ typedefs_ns = EmptyMap
        /\ pstatus = "parsing"
        /\ last = NoStep
        /\ res = NoQuery

\* resolve_type_name_full(type_name, ctype, passed, allow_invalid), then
\* resolve_type_name(type_name, ctype) and resolve_type_name of its result.
Queried(type_name, ctype, passed, allow_invalid, plain) ==
    res' = [status |-> "done", type_name |-> type_name, ctype |-> ctype,
            passed |-> passed, own |-> names[ParseT],
            allow_invalid |-> allow_invalid,
            full |-> resolve_type_name_full(strip_prefix, names[ParseT], type_name,
                                            ctype, passed, allow_invalid),
            plain |-> plain,
            again |-> resolve_type_name(strip_prefix, names[ParseT], plain, None)]

\* The pending query is made, at any point of parse() or after it.
Resolve ==
    /\ tin.ctx = "resolve"
    /\ res = NoQuery
    /\ Queried(tin.type_name, tin.ctype, PassedNames(tin.passed, names[ParseT]),
               tin.allow_invalid,
               resolve_type_name(strip_prefix, names[ParseT], tin.type_name,
                                 tin.ctype))
    /\ UNCHANGED <<incvars, strip_prefix, tin, tout, parsevars>>

NextResolve == ParseStep \/ ParseReturn \/ Resolve

SpecResolve == InitResolve /\ [][NextResolve]_vars

(***************************************************************************)
(* Resolving the type of a parameter, its nested types included            *)
(***************************************************************************)
\* The outer name and C type of the type nodes resolved.
OuterTypes == { <<"int", "int">>, <<"GLib.List", "GList*">> }

\* The nested type names: an included alias, an included class by its type
\* name, a declared struct, and a name known nowhere.
NestedNames == { "Quark", "FooObject", "BarThing", "Nope" }

MapNames == { "Quark", "BarThing", "Nope" }

\* Type nodes as _create_type builds them: the key and value type of a Map
\* are both given or both None.
ParamTypes ==
    {Type(o[1], o[2]) : o \in OuterTypes}
    \cup {List(o[1], o[2], e) : o \in OuterTypes, e \in NestedNames \cup {None}}
    \cup {Array(o[2], e) : o \in OuterTypes, e \in NestedNames \cup {None}}
    \cup {Map(o[1], o[2], k, v) : o \in OuterTypes, k \in MapNames, v \in MapNames}
    \cup {Map(o[1], o[2], None, None) : o \in OuterTypes}

ParamIncludes == { {}, {IncGLib}, {IncFoo, IncGLib} }

ParamStreams == { <<>>, <<TypedefSymbol("BarThing", StructOf(<<>>))>> }

InitParam ==
    \E S \in ParamIncludes, symbols \in ParamStreams, sp \in ResolvePrefixes :
        /\ fs = [i \in Found |-> {}]
        /\ cachestore = {FindInclude(ParseT, i) : i \in S}
        /\ loads = [f \in Files |->
                      IF \E i \in S : FindInclude(ParseT, i) = f THEN 1 ELSE 0]
        /\ includes = [t \in Transformers |-> IF t = ParseT THEN S ELSE {}]
        /\ names = [t \in Transformers |->
                      IF t = ParseT THEN MergeIncludes(S, Len(IncOrder)) ELSE NewNames]
        /\ stack = [t \in Transformers |-> <<>>]
        /\ failed = [t \in Transformers |-> FALSE]
        /\ concurrent = FALSE
        /\ called = [t \in Transformers |-> NoCalls]
        /\ strip_prefix = sp
        /\ \E ptype \in ParamTypes, passed \in PassedRegistries,
              allow_invalid \in BOOLEAN :
              tin = [ctx |-> "param", ptype |-> ptype, passed |-> passed,
                     allow_invalid |-> allow_invalid]
        /\ tout = Pending
        /\ stream = symbols
        /\ namespace = <<>>
        /\ heap = <<>>
        /\ typedefs_ns = EmptyMap
        /\ pstatus = "parsing"
        /\ last = NoStep
        /\ res = NoQuery

\* resolve_param_type_full(ptype, passed, allow_invalid=...) on one copy of
\* the type node and resolve_param_type(ptype) on another: the node as each
\* call leaves it, and whether the first raised KeyError.
ParamQueried(ptype, passed, allow_invalid) ==
    res' = [status |-> "done", ptype |-> ptype, passed |-> passed,
            own |-> names[ParseT], allow_invalid |-> allow_invalid,
            full |-> resolve_param_type_full(strip_prefix, names[ParseT], ptype,
                                             passed, allow_invalid),
            plain |-> resolve_param_type(strip_prefix, names[ParseT], ptype)]

\* The pending call is made, at any point of parse() or after it.
ResolveParam ==
    /\ tin.ctx = "param"
    /\ res = NoQuery
    /\ ParamQueried(tin.ptype, PassedNames(tin.passed, names[ParseT]),
                    tin.allow_invalid)
    /\ UNCHANGED <<incvars, strip_prefix, tin, tout, parsevars>>

NextParam == ParseStep \/ ParseReturn \/ ResolveParam

SpecParam == InitParam /\ [][NextParam]_vars

(***************************************************************************)
(* Claims about register_include                                           *)
(***************************************************************************)
\* A transformer is about to look the file up in the cache store.
AboutToLoad(t, f) == ~Idle(t) /\ Top(t).pc = "load" /\ Top(t).filename = f

\* C1: over any sequence of register_include calls on an acyclic include
\* graph, each resolved include file is parsed at most once; a parse of a
\* file happens only while the cache store has no entry for its path; and a
\* parsed file is in the store at every later lookup of it.
C1_ParsedAtMostOnce ==
    /\ [](\A f \in Files :
            /\ loads[f] <= 1
            /\ \A t \in Transformers :
                 AboutToLoad(t, f) /\ loads[f] >= 1 => f \in cachestore)
    /\ [][\A f \in Files : loads'[f] > loads[f] => f \notin cachestore]_vars

\* C1 witness: both transformers have registered an include directly and
\* through another include that lists it, from the same file, parsed once.
C1_Witness ==
    \E x \in Found, y \in Found :
        /\ x \in fs[y]
        /\ \A t \in Transformers : Idle(t) /\ {x, y} \subseteq includes[t]
        /\ FindInclude(1, x) = FindInclude(2, x)
        /\ loads[FindInclude(1, x)] = 1
        /\ loads[FindInclude(1, y)] = 1

(***************************************************************************)
(* Claims about Parameter and Return                                       *)
(***************************************************************************)
\* C3: every Parameter and Return that is built has its transfer set to
\* one of none, container, full, whatever the annotations are (an explicit
\* transfer with no argument, a '...' parameter): it is never unset and
\* never another token.
C3_TransferIsSet ==
    tout.status = "ok" => tout.node.transfer \in {"none", "container", "full"}

\* C3 witness: a Parameter or Return was built from an explicit transfer
\* annotation that has no argument.
C3_Witness ==
    /\ tin.ctx \in {"param", "return"}
    /\ \E i \in 1..Len(tin.options) : tin.options[i] = "transfer"
    /\ tout.status = "ok"
    /\ tout.node.transfer = "full"

\* C7 as stated: with no explicit transfer, the transfer is the first match
\* of: string-shaped -> none if the type under it is const else full;
\* array-shaped (option or structural) -> none; basic/void/enum -> none;
\* pointer to const -> none; a parameter with direction out/inout -> full,
\* any other parameter -> none; anything else -> full; and it is marked
\* transfer-inferred.
C7_AsStated ==
    LET st == tin.symbol.base_type
        canontype == type_name_from_ctype(create_source_type(st))
        claimed ==
            IF canontype = TYPE_STRING
            THEN IF st.base_type.const THEN "none" ELSE "full"
            ELSE IF Has(parse_options(tin.options), "array") \/ st.type = "CTYPE_ARRAY"
            THEN "none"
            ELSE IF canontype \in BASIC_GIR_TYPES \/ canontype = TYPE_NONE
                    \/ st.type = "CTYPE_ENUM"
            THEN "none"
            ELSE IF st.type = "CTYPE_POINTER" /\ st.base_type.const THEN "none"
            ELSE IF tin.ctx = "param"
            THEN IF tout.node.direction \in {"out", "inout"} THEN "full" ELSE "none"
            ELSE "full"
    IN  /\ tout.status = "ok"
        /\ tin.symbol.type # "CSYMBOL_TYPE_ELLIPSIS"
        /\ ~Has(parse_options(tin.options), "transfer")
        => tout.node.transfer = claimed /\ tout.node.transfer_inferred

\* C7 as amended: as stated, except that the direction decides only for a
\* pointer-typed parameter (out/inout -> full, else none); every other
\* parameter that reaches this rule gets none whatever its direction, and a
\* '...' parameter gets none without the transfer-inferred mark.
C7_InferredTransfer ==
    LET st == tin.symbol.base_type
        canontype == type_name_from_ctype(create_source_type(st))
        amended ==
            IF canontype = TYPE_STRING
            THEN IF st.base_type.const THEN "none" ELSE "full"
            ELSE IF Has(parse_options(tin.options), "array") \/ st.type = "CTYPE_ARRAY"
            THEN "none"
            ELSE IF canontype \in BASIC_GIR_TYPES \/ canontype = TYPE_NONE
                    \/ st.type = "CTYPE_ENUM"
            THEN "none"
            ELSE IF st.type = "CTYPE_POINTER" /\ st.base_type.const THEN "none"
            ELSE IF tin.ctx = "param" /\ st.type = "CTYPE_POINTER"
            THEN IF tout.node.direction \in {"out", "inout"} THEN "full" ELSE "none"
            ELSE IF tin.ctx = "param" THEN "none"
            ELSE "full"
    IN  /\ tout.status = "ok"
        /\ ~Has(parse_options(tin.options), "transfer")
        => IF tin.symbol.type = "CSYMBOL_TYPE_ELLIPSIS"
           THEN tout.node.transfer = "none" /\ ~tout.node.transfer_inferred
           ELSE tout.node.transfer = amended /\ tout.node.transfer_inferred

\* C7 witness: a parameter that is no pointer, annotated out, with no
\* explicit transfer, was built with the inferred transfer none.
C7_Witness ==
    /\ tin.ctx = "param"
    /\ tin.symbol.base_type = Typedef("GValue")
    /\ tin.options = <<"out">>
    /\ tout.status = "ok"
    /\ tout.node.direction = "out"
    /\ tout.node.transfer = "none"
    /\ tout.node.transfer_inferred

(***************************************************************************)
(* Claims about parse()                                                    *)
(***************************************************************************)
\* The loop of parse() has just handled a symbol of one of these kinds.
Handled(kinds) == last.status # "none" /\ last.symbol.type \in kinds

\* _traverse_one ended the turn by raising: parse() has not returned and
\* will not.
HardError == last.status = "error" /\ pstatus = "error" /\ last.node = NoRef

\* The declaration was left out and the loop went on.
Omitted ==
    /\ last.status = "ok"
    /\ last.node = NoRef
    /\ Len(namespace) = last.nodes_before
    /\ pstatus \in {"parsing", "returned"}

\* The type renders as va_list or FILE*.
Unrepresentable(source_type) ==
    create_source_type(source_type) \in {"va_list", "FILE*"}

\* A parameter or a member of that type, or a callback with one.
RECURSIVE UnrepresentableIn(_)
UnrepresentableChild(child) ==
    /\ child.type # "CSYMBOL_TYPE_ELLIPSIS"
    /\ IF IsFunctionPointer(child.base_type)
       THEN \/ Unrepresentable(child.base_type.base_type.base_type)
            \/ UnrepresentableIn(child.base_type.base_type.child_list)
       ELSE Unrepresentable(child.base_type)

UnrepresentableIn(children) ==
    \E i \in 1..Len(children) : UnrepresentableChild(children[i])

\* A function or callback typedef with a va_list or FILE* parameter or
\* result, or a struct or union with such a field.
UnrepresentableDeclaration(symbol) ==
    CASE symbol.type = "CSYMBOL_TYPE_FUNCTION" ->
             \/ Unrepresentable(symbol.base_type.base_type)
             \/ UnrepresentableIn(symbol.base_type.child_list)
      [] symbol.type = "CSYMBOL_TYPE_TYPEDEF" /\ IsFunctionPointer(symbol.base_type) ->
             UnrepresentableChild(symbol)
      [] symbol.type \in {"CSYMBOL_TYPE_STRUCT", "CSYMBOL_TYPE_UNION"} ->
             UnrepresentableIn(symbol.base_type.child_list)
      [] OTHER -> FALSE

\* C2: every declaration of the stream whose type renders as va_list or
\* FILE* (a function, a callback typedef, or a struct or union with such a
\* field) yields no node, leaves the namespace's node count as it was, and
\* parse goes on with the next declaration instead of aborting.
C2_UnrepresentableOmitted ==
    /\ Handled({"CSYMBOL_TYPE_FUNCTION", "CSYMBOL_TYPE_TYPEDEF",
                "CSYMBOL_TYPE_STRUCT", "CSYMBOL_TYPE_UNION"})
    /\ UnrepresentableDeclaration(last.symbol)
    => Omitted

\* Two parameters of the function carry the same name.
DuplicateNames(symbol) ==
    \E i, j \in 1..Len(symbol.base_type.child_list) :
        i < j /\ symbol.base_type.child_list[i].ident
                   = symbol.base_type.child_list[j].ident

LengthNamed(symbol, k) ==
    Get(ArrayOpts(parse_options(
            DirectivesFor(symbol.directives, symbol.base_type.child_list[k].ident))),
        "length")

\* The k-th parameter is built as an Array and is given a length name.
ArrayWithLength(symbol, k) ==
    /\ symbol.base_type.child_list[k].type # "CSYMBOL_TYPE_ELLIPSIS"
    /\ create_source_type(symbol.base_type.child_list[k].base_type) \notin list_ctypes
    /\ create_source_type(symbol.base_type.child_list[k].base_type) \notin map_ctypes
    /\ Truthy(LengthNamed(symbol, k))

\* An Array parameter names a length that no parameter of the function has.
UnmatchedLength(symbol) ==
    \E k \in 1..Len(symbol.base_type.child_list) :
        /\ ArrayWithLength(symbol, k)
        /\ \A j \in 1..Len(symbol.base_type.child_list) :
              symbol.base_type.child_list[j].ident # LengthNamed(symbol, k)

\* The Function node parse() has just built.
FunctionBuilt == last.status = "ok" /\ last.node # NoRef

\* Every length name of the built Function is resolved to the index (from
\* 0) of the first parameter with that name, wherever it stands.
LengthsResolved(parameters) ==
    \A k \in 1..Len(parameters) :
        IsArray(parameters[k].type) /\ NamesLength(parameters[k].type)
        => /\ parameters[k].type.length_param_index \in 0..(Len(parameters) - 1)
           /\ parameters[parameters[k].type.length_param_index + 1].name
                = parameters[k].type.length_param_name
           /\ \A j \in 1..parameters[k].type.length_param_index :
                 parameters[j].name # parameters[k].type.length_param_name

Registered_in(nms, node) ==
    \E m \in {nms.names, nms.aliases, nms.type_names, nms.ctypes} :
        \E k \in DOMAIN m : m[k].node = node

\* _add_node has just left the node out because of its name.
Excluded == last.status = "ok" /\ last.node # NoRef /\ Private(last.node.name)

NoPrivateNode ==
    \A i \in 1..Len(namespace) : ~StartsWith(namespace[i].name, "_")

ShellFilled ==
    /\ Handled({"CSYMBOL_TYPE_STRUCT", "CSYMBOL_TYPE_UNION"})
    /\ Has(typedefs_ns, last.symbol.ident)

\* The last n fields of the node are those of the declaration's members.
FieldsAppended(fields, members) ==
    /\ Len(fields) >= Len(members)
    /\ \A i \in 1..Len(members) :
          fields[Len(fields) - Len(members) + i].symbol = members[i].ident

\* C10: when a typedef has registered a struct or union shell under an
\* identifier and a later struct or union declaration with that identifier
\* is handled, the fields of the declaration are appended to that shell and
\* no second Struct or Union node is created for the identifier.
C10_ShellReused ==
    ShellFilled
    => /\ Len(heap) = last.heap_before
       /\ last.status = "ok"
          => /\ last.node = typedefs_ns[last.symbol.ident]
             /\ last.node.ref <= last.heap_before
             /\ FieldsAppended(heap[last.node.ref].fields,
                               last.symbol.base_type.child_list)

\* C10 witness: struct BarThing with its two fields has been handled after
\* typedef struct BarThing BarThing, and the shell has the two fields.
C10_Witness ==
    /\ ShellFilled
    /\ last.symbol.type = "CSYMBOL_TYPE_STRUCT"
    /\ last.status = "ok"
    /\ Len(last.symbol.base_type.child_list) = 2
    /\ Len(heap[typedefs_ns[last.symbol.ident].ref].fields) = 2
    /\ heap[typedefs_ns[last.symbol.ident].ref].kind = "Struct"

(***************************************************************************)
(* Claims about type-name resolution                                       *)
(***************************************************************************)
\* '<namespace>.<localName>'
Qualified(name) == Find(name, ".", 1) > 1 /\ Find(name, ".", 1) < Len(name)

\* C8: resolving an already namespace-qualified name is idempotent: over
\* every registry reached by includes and parsed declarations and every
\* strip prefix, if resolve_type_name returns a qualified name N then
\* resolve_type_name(N) returns N.
C8_QualifiedIdempotent ==
    res.status = "done" /\ Qualified(res.plain) => res.again = res.plain

\* The name is in neither the built-in table, nor the registry passed in,
\* nor the transformer's own registry.
TotalMiss ==
    /\ res.status = "done"
    /\ ~Has(type_names, res.type_name)
    /\ ~(Truthy(res.ctype) /\ Has(type_names, res.ctype))
    /\ ~registry_hit(strip_prefix, res.type_name, res.ctype, res.passed).hit
    /\ ~registry_hit(strip_prefix, res.type_name, res.ctype, res.own).hit

\* C9: a type name found neither in the built-in table, nor in the registry
\* passed in, nor in the transformer's own registry is returned unchanged
\* by resolve_type_name_full (no prefix stripped, no error) by default, and
\* raises the not-found error if allow_invalid is false; the registries are
\* left as they were in both cases.
C9_UnresolvedVerbatim ==
    /\ [](TotalMiss =>
            IF res.allow_invalid
            THEN ~res.full.raised /\ res.full.value = res.type_name
            ELSE res.full.raised)
    /\ [][res' # res => names' = names /\ typedefs_ns' = typedefs_ns]_vars

\* C9 witness: with strip prefix g, a name that starts with g and is known
\* nowhere has been resolved against the GLib include's registry, the own
\* registry being another one, and came back as it was.
C9_Witness ==
    /\ TotalMiss
    /\ strip_prefix = "g"
    /\ res.type_name = "gNope"
    /\ res.ctype = "Nope*"
    /\ res.allow_invalid
    /\ res.passed # res.own
    /\ res.passed # NewNames
    /\ res.own # NewNames
    /\ res.full.value = "gNope"

\* The node was made by the parse of declarations (it lives on the heap of
\* the namespace under construction), not read from an include file.
LocalNode(node) == "ref" \in DOMAIN node

\* The node is one of namespace nsname of an include file.
IncludedFrom(node, nsname) ==
    \E i \in Found :
        /\ NamespaceOf(i).name = nsname
        /\ \E k \in 1..Len(NamespaceOf(i).nodes) : NamespaceOf(i).nodes[k] = node

\* resolve_type_name has matched an entry of one of the four mappings.
RegistryHit ==
    /\ res.status = "done"
    /\ ~BuiltIn(res.type_name, res.ctype)
    /\ registry_hit(strip_prefix, res.type_name, res.ctype, res.own).hit

Matched == registry_hit(strip_prefix, res.type_name, res.ctype, res.own).item

\* C13: for every successful registry lookup of resolve_type_name (by C
\* type, alias, short name or type name) the result is
\* '<namespace>.<localName>' exactly when the matched entry was merged from
\* an included namespace and the bare local name exactly when the matched
\* entry belongs to the namespace under construction, over every set of
\* includes and every parsed stream.
C13_QualifiedIffIncluded ==
    RegistryHit
    => IF LocalNode(Matched.node)
       THEN /\ res.plain = Matched.node.name
            /\ ~Qualified(res.plain)
            /\ \E k \in 1..Len(namespace) : namespace[k] = Matched.node
       ELSE /\ \E nsname \in {"Foo", "GLib", "Lib"} :
                  /\ IncludedFrom(Matched.node, nsname)
                  /\ res.plain = nsname \o "." \o Matched.node.name
            /\ Qualified(res.plain)

\* C13 witness: with GLib included and the typedef of BarThing parsed, the
\* C type GList* has matched the included GLib node List and rendered
\* GLib.List.
C13_Witness ==
    /\ RegistryHit
    /\ ~LocalNode(Matched.node)
    /\ res.ctype = "GList*"
    /\ res.plain = "GLib.List"
    /\ Has(res.own.names, "BarThing")
    /\ LocalNode(res.own.names["BarThing"].node)

\* A local node has been matched too, and rendered bare.
LocalRenderedBare ==
    /\ RegistryHit
    /\ LocalNode(Matched.node)
    /\ res.plain = "BarThing"
    /\ Has(res.own.names, "GLib.List")

(***************************************************************************)
(* Claims about resolve_param_type                                         *)
(***************************************************************************)
\* The attributes of a type node that hold a type name the call visits, in
\* the order it visits them.
Visited(ptype) ==
    <<"name">>
    \o (IF ptype.kind \in {"Array", "List"} /\ ptype.element_type # None
        THEN <<"element_type">> ELSE <<>>)
    \o (IF ptype.kind = "Map" /\ ptype.key_type # None
        THEN <<"key_type", "value_type">> ELSE <<>>)

\* The C type that goes with the name held by an attribute.
CTypeFor(ptype, attr) == IF attr = "name" THEN ptype.ctype ELSE None

\* The name held by the attribute is in the built-in table, in registry nms
\* or in the transformer's own registry.
Resolvable(ptype, attr, nms) ==
    \/ BuiltIn(ptype[attr], CTypeFor(ptype, attr))
    \/ registry_hit(strip_prefix, ptype[attr], CTypeFor(ptype, attr), nms).hit
    \/ registry_hit(strip_prefix, ptype[attr], CTypeFor(ptype, attr), res.own).hit

\* What the name held by the attribute resolves to.
ResolvedName(ptype, attr, nms) ==
    resolve_type_name_full(strip_prefix, res.own, ptype[attr],
                           CTypeFor(ptype, attr), nms, TRUE).value

\* The attribute is visited, and in strict mode no attribute visited up to
\* it misses.
Reached(ptype, attr, nms, strict) ==
    \E k \in 1..Len(Visited(ptype)) :
        /\ Visited(ptype)[k] = attr
        /\ strict => \A j \in 1..k : Resolvable(ptype, Visited(ptype)[j], nms)

\* The type node with every attribute that is reached and resolvable
\* resolved, and every other attribute as it was.
Expected(ptype, nms, strict) ==
    [attr \in DOMAIN ptype |->
        IF Reached(ptype, attr, nms, strict) /\ Resolvable(ptype, attr, nms)
        THEN ResolvedName(ptype, attr, nms)
        ELSE ptype[attr]]

SomeMiss(ptype, nms) ==
    \E k \in 1..Len(Visited(ptype)) : ~Resolvable(ptype, Visited(ptype)[k], nms)

\* C14 as stated: resolve_param_type_full resolves the outer name and the
\* nested names of an Array, List or Map; a nested name that cannot be
\* resolved is left as it was, the others are still resolved, and the call
\* does not abort, in default and in strict mode alike.
C14_AsStated ==
    res.status = "done"
    => /\ ~res.full.raised
       /\ res.full.value = Expected(res.ptype, res.passed, FALSE)

\* C14: in default mode resolve_param_type_full and resolve_param_type
\* resolve the outer name and then the element type of an Array or List and
\* the key and value type of a Map; a name that cannot be resolved is left
\* as it was, the others are still resolved, and nothing is raised.  In
\* strict mode the first name that cannot be resolved, outer or nested,
\* raises KeyError out of the call: the names before it are resolved in
\* place, that name and the ones after it are left as they were.
C14_NestedResolved ==
    res.status = "done"
    => /\ res.plain = Expected(res.ptype, res.own, FALSE)
       /\ res.full.raised = (~res.allow_invalid /\ SomeMiss(res.ptype, res.passed))
       /\ res.full.value = Expected(res.ptype, res.passed, ~res.allow_invalid)

\* C14 witness: in default mode a Map whose key type is known nowhere and
\* whose value type is the included alias Quark has been resolved: the key
\* is as it was and the value is GLib.Quark.
C14_Witness ==
    /\ res.status = "done"
    /\ res.allow_invalid
    /\ res.ptype.kind = "Map"
    /\ res.ptype.key_type = "Nope"
    /\ res.ptype.value_type = "Quark"
    /\ ~Resolvable(res.ptype, "key_type", res.passed)
    /\ ~res.full.raised
    /\ res.full.value.key_type = "Nope"
    /\ res.full.value.value_type = "GLib.Quark"
    /\ res.full.value.name = "GLib.List"

\* In strict mode the same Map has raised, and the value type after the key
\* is as it was.
StrictAborted ==
    /\ res.status = "done"
    /\ ~res.allow_invalid
    /\ res.ptype.kind = "Map"
    /\ res.ptype.key_type = "Nope"
    /\ res.ptype.value_type = "Quark"
    /\ Resolvable(res.ptype, "name", res.passed)
    /\ Resolvable(res.ptype, "value_type", res.passed)
    /\ res.full.raised
    /\ res.full.value.value_type = "Quark"

(***************************************************************************)
(* Claims about concurrent and repeated register_include                   *)
(***************************************************************************)
\* The transformer has seen a cache miss for the file and not yet stored it.
MissObserved(t, f) ==
    ~Idle(t) /\ Top(t).filename = f /\ Top(t).pc \in {"parse", "store"}

\* C11: when two transformers that share the cache store ask for the same
\* include file at the same time, the file is parsed at most once: lookup,
\* parse and store behave as one atomic get-or-create, so that no
\* interleaving lets both see a miss and both parse.
C11_AtomicGetOrCreate ==
    \A f \in Files :
        /\ loads[f] <= 1
        /\ \A t, u \in Transformers :
              MissObserved(t, f) /\ MissObserved(u, f) => t = u

\* C12: register_include of an include that is already in the transformer's
\* include set is a no-op: no file is searched for, the cache store is not
\* asked, nothing is parsed, and the include set, the four mappings of the
\* registry and the namespace's node list stay as they are.
C12_ReRegisterNoOp ==
    [][\A t \in Transformers, include \in Incs :
           RegisterInclude(t, include) /\ include \in includes[t]
           => /\ stack' = stack
              /\ cachestore' = cachestore
              /\ loads' = loads
              /\ failed'[t] = FALSE
              /\ includes' = includes
              /\ names' = names
              /\ namespace' = namespace]_vars

\* C12 witness: register_include has been called with an include the
\* transformer had registered, and has returned.
C12_Witness ==
    \E t \in Transformers :
        /\ Idle(t)
        /\ called[t].registered
        /\ called[t].include \in includes[t]
        /\ names[t] # NewNames

\* The include is being registered by an activation below the top one too.
Reentered(t) ==
    \E i, j \in 1..Len(stack[t]) : i < j /\ stack[t][i].include = stack[t][j].include

\* C16: register_include terminates on every finite include graph whose
\* files are all found, a graph with a cycle included: an include is never
\* entered again while its own registration is in progress, and so no call
\* for an include that has a file ends by raising.
C16_NoReentry ==
    \A t \in Transformers :
        /\ ~Reentered(t)
        /\ failed[t] => called[t].include \notin Found

(***************************************************************************)
(* Claims about the namespace's node list                                  *)
(***************************************************************************)
\* C15: after every turn of parse(), over any sequence of declarations (a
\* typedef shell followed by a struct or union declaration of the same
\* identifier included), no node occurs more than once in the node list of
\* the namespace.
C15_NoNodeTwice ==
    \A i, j \in 1..Len(namespace) :
        namespace[i].ref = namespace[j].ref => i = j

=============================================================================
